---- MODULE Spec2Model ----
(***************************************************************************)
(* The reactivity core of vue (core/observer): Dep, Watcher, the accessor  *)
(* pair of defineReactive, the computed getter of core/instance/state and  *)
(* the scheduler queue.                                                    *)
(*                                                                         *)
(* JavaScript runs each entry point to completion on one thread, so every  *)
(* action below is one entry point called by user code or by the host      *)
(* (a property write, a read of a computed property, new Watcher, teardown,*)
(* the next-tick flush) together with everything it calls.  The functions  *)
(* of the source are operators that take the program state as a record `s` *)
(* and return the state they leave; `s.ret` is the value a call returns    *)
(* and `s.exc` says that an exception is propagating out of it.            *)
(*                                                                         *)
(* Fields and variables whose name starts with g are history variables:    *)
(* they record what happened and are never read by the modelled code.      *)
(***************************************************************************)
EXTENDS Integers, Sequences, FiniteSets, TLC

\* Most Watchers constructed in one behaviour.
MaxWatchers == 2
\* Most Watchers constructed in a behaviour of nested scopes.
MaxMounted == 3

VARIABLES
  data,             \* the closure variable `val` of each tracked property
  subs,             \* Dep.subs of each Dep
  watchers,         \* the Watcher objects, in construction order
  uid,              \* watcher.js `let uid`
  vmWatchers,       \* vm._watchers
  computedWatchers, \* vm._computedWatchers
  isBeingDestroyed, \* vm._isBeingDestroyed
  targetStack,      \* dep.js targetStack
  target,           \* Dep.target
  queue,            \* scheduler queue (of Watchers)
  has,              \* scheduler `has`: the ids pending
  flushing,         \* scheduler flag
  waiting,          \* scheduler flag
  index,            \* scheduler flush cursor (position in queue, from 1)
  circular,         \* scheduler: per Watcher id, its runs in the flush in progress
  scheduled,        \* flushes handed to the next tick that have not started
  afterFlushCbs,    \* callbacks registered with afterFlush that have not run
  heap,             \* the objects the scope's code holds, with their keys
  childOb,          \* the closure variable `childOb` of each tracked property
  depUid,           \* dep.js `let uid`
  shouldObserve,    \* observer/index.js `shouldObserve`
  scopes,           \* the scopes made by new Vue(options), in order
  events,           \* vm._events: the handlers of each event, in order
  installedPlugins, \* Vue._installedPlugins
  flags,            \* the flags the handlers and plugins of the scope's code keep
  gOnce,            \* per closure $once made: its event, its fn, the calls of fn by it
  gInstalls,        \* per plugin: the calls of its install function (or of it)
  gUsed,            \* the plugins Vue.use() was called with
  gSeen,            \* per Watcher: Deps whose depend() ran for it in its last get()
  gEver,            \* per Watcher: Deps whose depend() ever ran for it
  g                 \* what the last entry point did

vars == <<data, subs, watchers, uid, vmWatchers, computedWatchers,
          isBeingDestroyed, targetStack, target, queue, has, flushing,
          waiting, index, circular, scheduled, afterFlushCbs, heap, childOb,
          depUid, shouldObserve, scopes, events, installedPlugins, flags,
          gOnce, gInstalls, gUsed, gSeen, gEver, g>>

----------------------------------------------------------------------------
(* JavaScript values: numbers, not-a-number, undefined and objects (n is    *)
(* the object's identity; what it holds is in heap).                       *)

Num(k) == [t |-> "num", n |-> k]
Obj(k) == [t |-> "obj", n |-> k]
NaN == [t |-> "nan", n |-> 0]
Undefined == [t |-> "undef", n |-> 0]

\* a === b
StrictEq(u, v) == u = v /\ u.t # "nan"
\* isObject(value)
isObject(v) == v.t = "obj"
\* the truthiness a conditional tests
Truthy(v) == v.t = "num" /\ v.n # 0
\* a + b on numbers, not-a-number and undefined
Plus(u, v) == IF u.t = "num" /\ v.t = "num" THEN Num(u.n + v.n) ELSE NaN
\* a - b on numbers, not-a-number and undefined
Minus(u, v) == IF u.t = "num" /\ v.t = "num" THEN Num(u.n - v.n) ELSE NaN

----------------------------------------------------------------------------
(* The scope: data() { return {flag, a, b, get ro () {...}, box: {}} } and *)
(* computed: { c }.                                                        *)

Props == {"flag", "a", "b", "ro", "box"}
\* Dep.id of the Dep defineReactive creates for each key (Dep 0 belongs to
\* the Observer of the data object itself).
DepOf == [flag |-> 1, a |-> 2, b |-> 3, ro |-> 4, box |-> 5]
\* observe(val) of a value that is no object
NoOb == -1
\* The objects: vm._data; the object {} that data() gives box; an object
\* { k: 1 } and an array [] the scope's code made and has not handed to vue;
\* an object Object.freeze({ k: 1 }); the scope vm itself.
Root == 0
Boxed == 1
Loose == 2
List == 3
Frozen == 4
Vm == 5
Objects == {Root, Boxed, Loose, List, Frozen, Vm}
\* childOb = observe(val) of defineReactive for box: Dep.id of the Dep of the
\* Observer of the object in box, created right after the property's own Dep
BoxedOb == 6
\* The Deps initData leaves (those made later take the ids that follow).
Deps == {DepOf[p] : p \in Props} \cup {BoxedOb}
\* property && property.get, property && property.set: the accessor the key
\* had before defineReactive.  ro has a getter and no setter.
propertyGet(p) == p = "ro"
propertySet(p) == FALSE

\* Dep.target = null, and the undefined popTarget reads from an empty stack:
\* both mean that no Watcher is being evaluated.
NoTarget == 0

\* this._computedWatchers[key] of a key that has no Watcher (yet)
NoWatcher == 0

\* The kinds of Watcher.  render: new Watcher(vm, fn, noop, {before}, true)
\* of mountComponent; watch, watchSync, watchDeep: vm.$watch(fn, cb, {sync,
\* deep}); watchBad: vm.$watch(fn, cb) with a callback that throws;
\* watchOnce: vm.$watch(fn, cb) with a callback that calls the function
\* $watch returned; computed: initComputed.
Kinds == {"render", "watch", "watchSync", "watchDeep", "watchBad", "watchOnce",
          "computed"}

\* The scope a Watcher belongs to (this.vm): the scope whose data are the
\* properties above, or the k-th of the scopes made by new Vue(options).
Self == 0

Range(q) == {q[i] : i \in 1..Len(q)}
Count(q, x) == Cardinality({i \in 1..Len(q) : q[i] = x})
NoDup(q) == \A i, j \in 1..Len(q) : q[i] = q[j] => i = j

----------------------------------------------------------------------------
(* shared/util remove(arr, item): drops the first occurrence of item.      *)

RECURSIVE Remove(_, _)
Remove(arr, item) ==
  IF arr = <<>> THEN <<>>
  ELSE IF Head(arr) = item THEN Tail(arr)
  ELSE <<Head(arr)>> \o Remove(Tail(arr), item)

\* util handleError(err, vm, info): hands the error to the error channel.
handleError(s, w, info) ==
  [s EXCEPT !.g.errors = Append(@, <<w, info>>)]

\* observer/traverse traverse(val): returns at once unless val is a container
\* (the deep Watchers here watch expressions whose values are numbers).
traverse(s, val) == s

----------------------------------------------------------------------------
(* dep.js                                                                  *)

addSub(s, d, w) == [s EXCEPT !.subs[d] = Append(@, w)]

removeSub(s, d, w) == [s EXCEPT !.subs[d] = Remove(@, w)]

pushTarget(s, t) ==
  [s EXCEPT !.targetStack = Append(@, t), !.target = t]

\* A faulty popTarget(): it pops the stack and leaves Dep.target.
popTargetLeave(s) ==
  [s EXCEPT !.targetStack = SubSeq(@, 1, Len(@) - 1)]

\* targetStack.pop(); Dep.target = targetStack[targetStack.length - 1]
popTarget(s) ==
  LET n == Len(s.targetStack)
      st == SubSeq(s.targetStack, 1, n - 1)
  IN  [s EXCEPT !.targetStack = st,
                !.target = IF Len(st) = 0 THEN NoTarget ELSE st[Len(st)]]

----------------------------------------------------------------------------
(* watcher.js: dependency collection                                       *)

\* A faulty addDep(): it does not test this.depIds.
addDepAlways(s, w, d) ==
  IF d \notin s.watchers[w].newDepIds
    THEN addSub([s EXCEPT !.watchers[w].newDepIds = @ \cup {d},
                          !.watchers[w].newDeps = Append(@, d)], d, w)
    ELSE s

\* A faulty addDep(): it never calls dep.addSub(this).
addDepApart(s, w, d) ==
  IF d \notin s.watchers[w].newDepIds
    THEN [s EXCEPT !.watchers[w].newDepIds = @ \cup {d},
                   !.watchers[w].newDeps = Append(@, d)]
    ELSE s

\* Watcher.addDep(dep)
addDep(s, w, d) ==
  IF d \notin s.watchers[w].newDepIds
    THEN LET s1 == [s EXCEPT !.watchers[w].newDepIds = @ \cup {d},
                             !.watchers[w].newDeps = Append(@, d)]
         IN  IF d \notin s.watchers[w].depIds THEN addSub(s1, d, w) ELSE s1
    ELSE s

\* Dep.depend().  History: the call is recorded with the Watcher that was
\* Dep.target and the Watcher whose get() is the innermost one running, and
\* in every get() in progress of the Watcher that was Dep.target.
depend(s, d) ==
  IF s.target # NoTarget
    THEN LET fr == s.g.frames
         IN  addDep([s EXCEPT
                       !.gEver[s.target] = @ \cup {d},
                       !.g.frames = [i \in 1..Len(fr) |->
                          IF fr[i].w = s.target
                            THEN [fr[i] EXCEPT !.seen = @ \cup {d}]
                            ELSE fr[i]],
                       !.g.reads = Append(@,
                          [dep |-> d, target |-> s.target,
                           frame |-> IF fr = <<>> THEN NoTarget ELSE fr[Len(fr)].w])],
                    s.target, d)
    ELSE s

\* the while (i--) loop of cleanupDeps over this.deps[i], i = k down to 1
RECURSIVE cleanupLoop(_, _, _)
cleanupLoop(s, w, k) ==
  IF k = 0 THEN s
  ELSE LET d == s.watchers[w].deps[k]
       IN  cleanupLoop(IF d \notin s.watchers[w].newDepIds
                         THEN removeSub(s, d, w)
                         ELSE s,
                       w, k - 1)

\* the rest of cleanupDeps: depIds and deps take newDepIds and newDeps, which
\* are emptied
cleanupSwap(s, w) ==
  [s EXCEPT !.watchers[w].depIds = s.watchers[w].newDepIds,
            !.watchers[w].newDepIds = {},
            !.watchers[w].deps = s.watchers[w].newDeps,
            !.watchers[w].newDeps = <<>>]

\* A faulty cleanupDeps(): it swaps the buffers and unsubscribes from nothing.
cleanupDepsKeep(s, w) == cleanupSwap(s, w)

\* Watcher.cleanupDeps()
cleanupDeps(s, w) ==
  cleanupSwap(cleanupLoop(s, w, Len(s.watchers[w].deps)), w)

\* History: every active Watcher of ws is in the subs of exactly the Deps in
\* its deps, and its depIds are the ids of its deps (sb is the subs of every
\* Dep).
Symmetric(ws, sb) ==
  \A w \in 1..Len(ws) :
    ws[w].active =>
      /\ \A d \in DOMAIN sb :
           (\E i \in 1..Len(sb[d]) : sb[d][i] = w)
             <=> (\E j \in 1..Len(ws[w].deps) : ws[w].deps[j] = d)
      /\ ws[w].depIds = {ws[w].deps[j] : j \in 1..Len(ws[w].deps)}

\* Watcher.depend(): while (i--) this.deps[i].depend()
RECURSIVE watcherDependLoop(_, _, _)
watcherDependLoop(s, w, k) ==
  IF k = 0 THEN s
  ELSE watcherDependLoop(depend(s, s.watchers[w].deps[k]), w, k - 1)

\* A faulty Watcher.depend(): it does nothing.
watcherDependNone(s, w) == s

\* Watcher.depend()
watcherDepend(s, w) == watcherDependLoop(s, w, Len(s.watchers[w].deps))

----------------------------------------------------------------------------
(* observer/index.js: Observer, observe, defineReactive                    *)

\* An own key of an object: a data property (dep = NoOb) or the accessor pair
\* of defineReactive with its closure variables val, dep (its id), childOb.
Plain(key, val) == [key |-> key, val |-> val, dep |-> NoOb, childOb |-> NoOb]
\* position of the own key among the object's keys, 0 when it has none such
KeyAt(props, key) ==
  IF \E i \in 1..Len(props) : props[i].key = key
    THEN CHOOSE i \in 1..Len(props) : props[i].key = key
    ELSE 0
\* hasOwn(obj, key)
hasOwn(o, key) == KeyAt(o.props, key) # 0
\* Object.defineProperty(obj, key, ...) and obj[key] = val for a new key
Put(props, pr) ==
  IF KeyAt(props, pr.key) # 0
    THEN [props EXCEPT ![KeyAt(props, pr.key)] = pr]
    ELSE Append(props, pr)
\* delete obj[key]
Without(props, key) == SelectSeq(props, LAMBDA pr : pr.key # key)

\* Array.isArray(value)
isArray(s, v) == isObject(v) /\ s.heap[v.n].kind = "array"

\* new Dep(): this.id = uid++; this.subs = []
newDep(s) ==
  [s EXCEPT !.depUid = @ + 1, !.subs = @ @@ (s.depUid :> <<>>)]

RECURSIVE observe(_, _, _)

\* defineReactive(obj, key, val) for a key that has no accessor yet (none of
\* the objects has a property that is not configurable); s2.ob is what
\* observe(val) returned
defineReactive(s, n, key, val) ==
  LET define(s2) ==
        [s2 EXCEPT !.heap[n].props = Put(@, [key |-> key, val |-> val,
                                             dep |-> s.depUid, childOb |-> s2.ob]),
                   !.g.defined = Append(@, <<n, key>>)]
  IN  define(observe(newDep(s), val, FALSE))

\* Observer.walk(obj): defineReactive(obj, keys[i]) from key i on
RECURSIVE walk(_, _, _)
walk(s, n, i) ==
  IF i > Len(s.heap[n].props) THEN s
  ELSE walk(defineReactive(s, n, s.heap[n].props[i].key, s.heap[n].props[i].val),
            n, i + 1)

\* Observer.observeArray(items): observe(items[i]) from item i on
RECURSIVE observeArray(_, _, _)
observeArray(s, items, i) ==
  IF i > Len(items) THEN s
  ELSE observeArray(observe(s, items[i], FALSE), items, i + 1)

\* new Observer(value): its Dep, vmCount = 0, value.__ob__ = this (for an
\* array this also puts the intercepting methods before Array.prototype),
\* then the items are observed or the keys made reactive
newObserver(s, n) ==
  LET d == s.depUid
      return(s2) == [s2 EXCEPT !.ob = d]
      made(s1) == IF s1.heap[n].kind = "array"
                    THEN observeArray(s1, s1.heap[n].items, 1)
                    ELSE walk(s1, n, 1)
  IN  return(made([newDep(s) EXCEPT !.heap[n].ob = d, !.heap[n].vmCount = 0,
                                    !.g.observers = Append(@, n)]))

\* A faulty observe(): it does not look for value.__ob__.
observeAnew(s, value, asRootData) ==
  LET o == s.heap[value.n]
      count(s1) == IF asRootData /\ s1.ob # NoOb
                     THEN [s1 EXCEPT !.heap[value.n].vmCount = @ + 1]
                     ELSE s1
  IN  IF ~isObject(value) THEN [s EXCEPT !.ob = NoOb]
      ELSE count(IF /\ s.shouldObserve
                    /\ o.kind \in {"array", "plain"}
                    /\ o.extensible
                    /\ ~o.isVue
                   THEN newObserver(s, value.n)
                   ELSE [s EXCEPT !.ob = NoOb])

\* observe(value, asRootData); s.ob is what it returns: the Dep of the
\* Observer (an Observer is known by its Dep), or NoOb for undefined.  None
\* of the values is a VNode, and isServerRendering() is false.
observe(s, value, asRootData) ==
  LET o == s.heap[value.n]
      count(s1) == IF asRootData /\ s1.ob # NoOb
                     THEN [s1 EXCEPT !.heap[value.n].vmCount = @ + 1]
                     ELSE s1
  IN  IF ~isObject(value) THEN [s EXCEPT !.ob = NoOb]
      ELSE count(IF o.ob # NoOb THEN [s EXCEPT !.ob = o.ob]
                 ELSE IF /\ s.shouldObserve
                         /\ o.kind \in {"array", "plain"}
                         /\ o.extensible
                         /\ ~o.isVue
                   THEN newObserver(s, value.n)
                   ELSE [s EXCEPT !.ob = NoOb])

\* toggleObserving(value)
toggleObserving(s, value) == [s EXCEPT !.shouldObserve = value]

\* dependArray(value): e && e.__ob__ && e.__ob__.dep.depend() from item i on
\* (no item here is an array)
RECURSIVE dependArray(_, _, _)
dependArray(s, items, i) ==
  IF i > Len(items) THEN s
  ELSE dependArray(IF isObject(items[i]) /\ s.heap[items[i].n].ob # NoOb
                     THEN depend(s, s.heap[items[i].n].ob)
                     ELSE s,
                   items, i + 1)

\* if (childOb) { childOb.dep.depend(); if (Array.isArray(value)) ... } for
\* an accessor whose closure holds cob and whose value is value
dependOb(s, cob, value) ==
  IF cob = NoOb THEN s
  ELSE IF isArray(s, value)
    THEN dependArray(depend(s, cob), s.heap[value.n].items, 1)
    ELSE depend(s, cob)

\* the same for the tracked property p of vm._data
dependChild(s, p) == dependOb(s, s.childOb[p], s.data[p])

\* reactiveGetter of the tracked property p; data[p] is val, or what the
\* getter the key had returns
reactiveGetter(s, p) ==
  LET read(s1) == [s1 EXCEPT !.ret = s.data[p]]
  IN  read(IF s.target # NoTarget THEN dependChild(depend(s, DepOf[p]), p) ELSE s)

\* A key of an object other than vm._data: a name, or an array index.
Key(name) == [ix |-> FALSE, name |-> name, i |-> 0]
Ix(i) == [ix |-> TRUE, name |-> "", i |-> i]
\* isValidArrayIndex(key)
isValidArrayIndex(key) == key.ix

\* obj[key] read for the object n: undefined for a key it has not, the value
\* of a data property, or what the reactiveGetter defineReactive made returns
keyGetter(s, n, key) ==
  LET i == KeyAt(s.heap[n].props, key)
      pr == s.heap[n].props[i]
  IN  IF i = 0 THEN [s EXCEPT !.ret = Undefined]
      ELSE IF pr.dep = NoOb \/ s.target = NoTarget THEN [s EXCEPT !.ret = pr.val]
      ELSE [dependOb(depend(s, pr.dep), pr.childOb, pr.val) EXCEPT !.ret = pr.val]

----------------------------------------------------------------------------
(* instance/state.js: initState of a scope made by new Vue(options)        *)

\* Most scopes made by new Vue(options) in one behaviour.
MaxScopes == 2

\* The options of the scopes made: data is the object `shared` ("object"),
\* function () { parent.flag; return shared } ("factory"), function () {
\* parent.flag; throw new Error() } ("factoryBad") or not given ("none");
\* render is function () { return parent.a }; beforeDestroy is not given
\* ("none"), function () { parent.flag } ("reads"), function () {
\* parent.flag; throw new Error() } ("throws") or function () { if
\* (!this.again) { this.again = true; this.$destroy() } } ("destroys").
\* parent is the scope Self and shared is the object Loose.  _parentVnode
\* is the placeholder node (vm.$vnode) of a scope that a parent's render
\* made: Child(options) are the options of such a scope.
Options(opt, beforeDestroy) ==
  [data |-> opt, render |-> "geta", beforeDestroy |-> beforeDestroy,
   parentVnode |-> FALSE]
Child(options) == [options EXCEPT !.parentVnode = TRUE]

\* A scope before initState.  gHooks and gDecrements are history: the hooks
\* of mounting and destroying called on the scope, in order, and the times
\* $destroy of the scope did vmCount--.
newScope(options) ==
  [options |-> options, data |-> NoOb, watcher |-> NoWatcher, watchers |-> <<>>,
   again |-> FALSE,
   isMounted |-> FALSE, isBeingDestroyed |-> FALSE, isDestroyed |-> FALSE,
   gHooks |-> <<>>, gDecrements |-> 0]

\* In the history a scope made by new Vue(options) is named by minus its
\* position in scopes; a scope of Construct is named by its render Watcher.
NameOf(k) == 0 - k

\* {}: a new object; s.ret is the object
newObject(s) ==
  LET n == Cardinality(DOMAIN s.heap)
  IN  [s EXCEPT !.heap = @ @@ (n :> [kind |-> "plain", extensible |-> TRUE,
                                     isVue |-> FALSE, ob |-> NoOb, vmCount |-> 0,
                                     props |-> <<>>, items |-> <<>>]),
                !.ret = Obj(n)]

\* History: a call of callHook or getData that found the program as in s
\* and ran the handler with the program as in s1 returns leaving it as in s2.
guarded(s, s1, s2, fn, vm, handler) ==
  [s2 EXCEPT !.g.guards = Append(@,
     [fn |-> fn, vm |-> vm, handler |-> handler,
      targetBefore |-> s.target, stackBefore |-> s.targetStack,
      targetIn |-> s1.target,
      targetAfter |-> s2.target, stackAfter |-> s2.targetStack,
      reads |-> Len(s2.g.reads) - Len(s.g.reads),
      watchersSame |-> [w \in 1..Len(s.watchers) |->
                          <<s2.watchers[w].deps, s2.watchers[w].newDeps>>]
                       = [w \in 1..Len(s.watchers) |->
                          <<s.watchers[w].deps, s.watchers[w].newDeps>>],
      subsSame |-> s2.subs = s.subs,
      threw |-> s2.exc])]

\* getData(data, vm): pushTarget(); try { return data.call(vm, vm) } catch
\* (e) { handleError(e, vm, `data()`); return {} } finally { popTarget() }
getData(s, k) ==
  LET opt == s.scopes[k].options.data
      catch(s2) == IF s2.exc
                     THEN newObject([handleError(s2, NameOf(k), "data()")
                                       EXCEPT !.exc = FALSE])
                     ELSE s2
      call(s1) ==
        LET end(s3) == guarded(s, s1, s3, "getData", NameOf(k), opt)
        IN  end(popTarget(catch(
              IF opt = "factoryBad"
                THEN [reactiveGetter(s1, "flag") EXCEPT !.exc = TRUE]
                ELSE [reactiveGetter(s1, "flag") EXCEPT !.ret = Obj(Loose)])))
  IN  call(pushTarget(s, NoTarget))

\* initData(vm): vm._data is what the data option is or returns (a plain
\* object, with no keys that need a proxy), then observe(data, true)
initData(s, k) ==
  LET root(s1) == observe([s1 EXCEPT !.scopes[k].data = s1.ret.n], s1.ret, TRUE)
  IN  root(IF s.scopes[k].options.data = "object"
             THEN [s EXCEPT !.ret = Obj(Loose)]
             ELSE getData(s, k))

\* initState(vm) of the scope new Vue(options) makes: vm._watchers = [],
\* then initData(vm) or observe(vm._data = {}, true); the options name no
\* props, methods, computed properties or watchers
initState(s, options) ==
  LET k == Len(s.scopes) + 1
      made == [s EXCEPT !.scopes = Append(@, newScope(options))]
      root(s1) == observe([s1 EXCEPT !.scopes[k].data = s1.ret.n], s1.ret, TRUE)
  IN  IF options.data = "none" THEN root(newObject(made))
      ELSE initData(made, k)

RECURSIVE destroy(_, _)

----------------------------------------------------------------------------
(* scheduler.js: the callbacks that wait for a flush                       *)

\* History: callback cb runs in state s.
invoke(s, cb) ==
  [s EXCEPT !.g.after = Append(@,
     [cb |-> cb, runs |-> Len(s.g.runs), hooks |-> Len(s.g.hooks),
      queue |-> s.queue, flushing |-> s.flushing, scheduled |-> s.scheduled])]

\* A faulty afterFlush: the callback runs at once.
afterFlushNow(s, cb) ==
  invoke([s EXCEPT !.g.registered = Append(@, cb)], cb)

\* afterFlush(callback): the callback waits for the end of the flush in
\* progress or waiting, or of the next one
afterFlush(s, cb) ==
  [s EXCEPT !.afterFlushCbs = Append(@, cb), !.g.registered = Append(@, cb)]

----------------------------------------------------------------------------
(* watcher.js: evaluation                                                  *)

RECURSIVE get(_, _)
RECURSIVE reactiveSetter(_, _, _)

\* A faulty evaluate(): this.dirty stays as it is.
evaluateDirty(s, w) ==
  LET assign(e) == IF e.exc THEN e
                   ELSE [e EXCEPT !.watchers[w].value = e.ret]
  IN  assign(get(s, w))

\* Watcher.evaluate(): this.value = this.get(); this.dirty = false
evaluate(s, w) ==
  LET assign(e) == IF e.exc THEN e
                   ELSE [e EXCEPT !.watchers[w].value = e.ret,
                                  !.watchers[w].dirty = FALSE]
  IN  assign(get(s, w))

\* createComputedGetter(key): the accessor of the computed property c
computedGetter(s, key) ==
  LET w == s.computedWatchers
      return(s2) == [s2 EXCEPT !.ret = s2.watchers[w].value]
      collect(s1) ==
        IF s1.exc THEN s1
        ELSE return(IF s1.target # NoTarget THEN watcherDepend(s1, w) ELSE s1)
  IN  IF w # NoWatcher
        THEN collect(IF s.watchers[w].dirty THEN evaluate(s, w) ELSE s)
        ELSE [s EXCEPT !.ret = Undefined]

\* The evaluation functions handed to Watchers.
\* function () { return this.a + this.b }
sum(s) ==
  LET add(s1) == LET return(s2) == [s2 EXCEPT !.ret = Plus(s1.ret, s2.ret)]
                 IN  return(reactiveGetter(s1, "b"))
  IN  add(reactiveGetter(s, "a"))

\* function () { return this.flag ? this.a : this.b }
cond(s) ==
  LET branch(s1) == IF Truthy(s1.ret) THEN reactiveGetter(s1, "a")
                    ELSE reactiveGetter(s1, "b")
  IN  branch(reactiveGetter(s, "flag"))

\* function () { return this.c + this.c }
viaC(s) ==
  LET add(s1) ==
        IF s1.exc THEN s1
        ELSE LET return(s2) == IF s2.exc THEN s2
                               ELSE [s2 EXCEPT !.ret = Plus(s1.ret, s2.ret)]
             IN  return(computedGetter(s1, "c"))
  IN  add(computedGetter(s, "c"))

\* function () { return this.a + this.c }
both(s) ==
  LET add(s1) == LET return(s2) == IF s2.exc THEN s2
                                   ELSE [s2 EXCEPT !.ret = Plus(s1.ret, s2.ret)]
                 IN  return(computedGetter(s1, "c"))
  IN  add(reactiveGetter(s, "a"))

\* function () { this.a; throw new Error() }
boom(s) == [reactiveGetter(s, "a") EXCEPT !.exc = TRUE]

\* computed: { c () { return this.b } }
cdef(s) == reactiveGetter(s, "b")

\* function () { const v = this.b; this.b = 2; return v }
bump(s) ==
  LET assign(s1) == LET return(s2) == IF s2.exc THEN s2
                                      ELSE [s2 EXCEPT !.ret = s1.ret]
                    IN  return(reactiveSetter(s1, "b", Num(2)))
  IN  assign(reactiveGetter(s, "b"))

\* function () { if (this.a === 2) throw new Error(); return this.a }
fuse(s) ==
  LET test(s1) == IF StrictEq(s1.ret, Num(2)) THEN [s1 EXCEPT !.exc = TRUE] ELSE s1
  IN  test(reactiveGetter(s, "a"))

\* function () { return this.a }
geta(s) == reactiveGetter(s, "a")

\* function () { return this.box }
getbox(s) == reactiveGetter(s, "box")

\* function () { return this.box.k } (box holds an object)
getk(s) ==
  LET read(s1) == keyGetter(s1, s1.ret.n, Key("k"))
  IN  read(reactiveGetter(s, "box"))

\* function () { const v = this.a; kid.$destroy(); return v + this.b } with
\* kid the first scope made by new Vue(options), if there is one
dismiss(s) ==
  LET add(s1) == LET return(s2) == [s2 EXCEPT !.ret = Plus(s1.ret, s2.ret)]
                 IN  return(reactiveGetter(IF s1.scopes # <<>> THEN destroy(s1, 1)
                                           ELSE s1, "b"))
  IN  add(reactiveGetter(s, "a"))

\* function () { const v = this.a; if (kids.length < MaxScopes) kids.push(new
\* Vue({ data, beforeDestroy })); return v + this.b } with a factory for data
\* and a handler that reads; for spawnBad the factory and the handler throw
spawnWith(s, opt) ==
  LET add(s1) == LET return(s2) == [s2 EXCEPT !.ret = Plus(s1.ret, s2.ret)]
                 IN  return(reactiveGetter(
                       IF Len(s1.scopes) < MaxScopes
                         THEN initState(s1, Options(opt, IF opt = "factoryBad" THEN "throws"
                                                      ELSE "reads"))
                         ELSE s1, "b"))
  IN  add(reactiveGetter(s, "a"))
spawn(s) == spawnWith(s, "factory")
spawnBad(s) == spawnWith(s, "factoryBad")

\* function () { afterFlush(r); return this.a }
later(s) == reactiveGetter(afterFlush(s, "r"), "a")

\* function () { const v = this.b; this.b = 3 - v; return v }
flip(s) ==
  LET assign(s1) == LET return(s2) == IF s2.exc THEN s2
                                      ELSE [s2 EXCEPT !.ret = s1.ret]
                    IN  return(reactiveSetter(s1, "b", Minus(Num(3), s1.ret)))
  IN  assign(reactiveGetter(s, "b"))

\* function () { const v = this.a; this.b = v; return v }
copy(s) ==
  LET assign(s1) == LET return(s2) == IF s2.exc THEN s2
                                      ELSE [s2 EXCEPT !.ret = s1.ret]
                    IN  return(reactiveSetter(s1, "b", s1.ret))
  IN  assign(reactiveGetter(s, "a"))

\* function () { const v = this.b; this.a = 3 - v; return v }
anti(s) ==
  LET assign(s1) == LET return(s2) == IF s2.exc THEN s2
                                      ELSE [s2 EXCEPT !.ret = s1.ret]
                    IN  return(reactiveSetter(s1, "a", Minus(Num(3), s1.ret)))
  IN  assign(reactiveGetter(s, "b"))

\* function () { const v = this.a; this.flag = v - 1; return v }
gate(s) ==
  LET assign(s1) == LET return(s2) == IF s2.exc THEN s2
                                      ELSE [s2 EXCEPT !.ret = s1.ret]
                    IN  return(reactiveSetter(s1, "flag", Minus(s1.ret, Num(1))))
  IN  assign(reactiveGetter(s, "a"))

\* function () { this.b = this.a; return this.b }
echo(s) ==
  LET assign(s1) == LET read(s2) == IF s2.exc THEN s2 ELSE reactiveGetter(s2, "b")
                    IN  read(reactiveSetter(s1, "b", s1.ret))
  IN  assign(reactiveGetter(s, "a"))

\* value = this.getter.call(vm, vm)
callGetter(s, w) ==
  LET fn == s.watchers[w].getter
  IN  CASE fn = "sum" -> sum(s)
        [] fn = "cond" -> cond(s)
        [] fn = "viaC" -> viaC(s)
        [] fn = "boom" -> boom(s)
        [] fn = "cdef" -> cdef(s)
        [] fn = "bump" -> bump(s)
        [] fn = "geta" -> geta(s)
        [] fn = "fuse" -> fuse(s)
        [] fn = "getbox" -> getbox(s)
        [] fn = "getk" -> getk(s)
        [] fn = "later" -> later(s)
        [] fn = "flip" -> flip(s)
        [] fn = "copy" -> copy(s)
        [] fn = "anti" -> anti(s)
        [] fn = "echo" -> echo(s)
        [] fn = "gate" -> gate(s)
        [] fn = "both" -> both(s)
        [] fn = "dismiss" -> dismiss(s)
        [] fn = "spawn" -> spawn(s)
        [] fn = "spawnBad" -> spawnBad(s)

\* A faulty catch: the error is thrown on whatever the Watcher.
getCatchThrow(s, w) ==
  IF s.exc THEN [s EXCEPT !.ret = Undefined] ELSE s

\* A faulty catch: the error is handed to handleError whatever the Watcher.
getCatchAll(s, w) ==
  IF s.exc
    THEN [handleError(s, w, "getter") EXCEPT !.exc = FALSE, !.ret = Undefined]
    ELSE s

\* catch (e) { if (this.user) handleError(...) else throw e }
getCatch(s, w) ==
  IF s.exc
    THEN IF s.watchers[w].user
           THEN [handleError(s, w, "getter") EXCEPT !.exc = FALSE, !.ret = Undefined]
           ELSE [s EXCEPT !.ret = Undefined]
    ELSE s

\* finally { if (this.deep) traverse(value); popTarget(); this.cleanupDeps() }
getFinally(s, w) ==
  cleanupDeps(popTarget(IF s.watchers[w].deep THEN traverse(s, s.ret) ELSE s), w)

\* Watcher.get().  History: the evaluation in progress is pushed on g.frames,
\* and recorded in g.evals and gSeen as it ends.
get(s, w) ==
  LET try(s1) ==
        LET after(s2) ==
              LET end(s6) ==
                    LET seen == s6.g.frames[Len(s6.g.frames)].seen
                    IN  [s6 EXCEPT
                           !.gSeen[w] = seen,
                           !.g.frames = SubSeq(@, 1, Len(@) - 1),
                           !.g.evals = Append(@,
                              [w |-> w, threw |-> s2.exc, value |-> s6.ret,
                               propagated |-> s6.exc,
                               stackBefore |-> s.targetStack,
                               targetBefore |-> s.target,
                               stackIn |-> s1.targetStack,
                               targetIn |-> s1.target,
                               stackAfter |-> s6.targetStack,
                               targetAfter |-> s6.target,
                               deps |-> s6.watchers[w].deps,
                               depIds |-> s6.watchers[w].depIds,
                               newDeps |-> s6.watchers[w].newDeps,
                               newDepIds |-> s6.watchers[w].newDepIds,
                               outermost |-> Len(s6.g.frames) = 1,
                               symmetric |-> Symmetric(s6.watchers, s6.subs),
                               seen |-> seen])]
              IN  end(getFinally(getCatch(s2, w), w))
        IN  after(callGetter(s1, w))
  IN  try(pushTarget([s EXCEPT !.g.frames = Append(@, [w |-> w, seen |-> {}])], w))

\* the while (i--) loop of teardown over this.deps[i], i = k down to 1
RECURSIVE teardownLoop(_, _, _)
teardownLoop(s, w, k) ==
  IF k = 0 THEN s
  ELSE teardownLoop(removeSub(s, s.watchers[w].deps[k], w), w, k - 1)

\* if (!this.vm._isBeingDestroyed) remove(this.vm._watchers, this)
leave(s, w) ==
  LET vm == s.watchers[w].vm
  IN  IF vm = Self
        THEN IF ~s.isBeingDestroyed
               THEN [s EXCEPT !.vmWatchers = Remove(@, w)]
               ELSE s
        ELSE IF ~s.scopes[vm].isBeingDestroyed
               THEN [s EXCEPT !.scopes[vm].watchers = Remove(@, w)]
               ELSE s

\* A faulty teardown(): it does not test this.active.
teardownAgain(s, w) ==
  LET off(s2) == [s2 EXCEPT !.watchers[w].active = FALSE]
  IN  off(teardownLoop(leave(s, w), w, Len(s.watchers[w].deps)))

\* Watcher.teardown()
teardown(s, w) ==
  LET off(s2) == [s2 EXCEPT !.watchers[w].active = FALSE]
  IN  IF s.watchers[w].active
        THEN off(teardownLoop(leave(s, w), w, Len(s.watchers[w].deps)))
        ELSE s

\* this.cb.call(this.vm, value, oldValue); the callback of a watchBad
\* Watcher is function () { throw new Error() }, that of a watchOnce Watcher
\* is function () { unwatch() } with the function $watch returned for it
callback(s, w, value, oldValue) ==
  LET called == [s EXCEPT !.g.cbs = Append(@, [w |-> w, value |-> value,
                                                oldValue |-> oldValue]),
                          !.exc = s.watchers[w].cb = "throws"]
  IN  IF s.watchers[w].cb = "unwatch" THEN teardown(called, w) ELSE called

\* A faulty run(): no try around the callback.
runNoCatch(s, w) == s

\* if (this.user) try { cb } catch (e) { handleError(...) } else cb
runCatch(s, w) ==
  IF s.exc /\ s.watchers[w].user
    THEN [handleError(s, w, "callback") EXCEPT !.exc = FALSE]
    ELSE s

\* History: a call of run() on w found the program as in s and returns
\* leaving it as in s1: the evaluations made and the callbacks called for w
\* in between.
runReturns(s, s1, w) ==
  [s1 EXCEPT !.g.ran = Append(@,
     [w |-> w, active |-> s.watchers[w].active, old |-> s.watchers[w].value,
      evals |-> SelectSeq(SubSeq(s1.g.evals, Len(s.g.evals) + 1, Len(s1.g.evals)),
                          LAMBDA e : e.w = w),
      cbs |-> SelectSeq(SubSeq(s1.g.cbs, Len(s.g.cbs) + 1, Len(s1.g.cbs)),
                        LAMBDA c : c.w = w),
      after |-> s1.watchers[w].value, threw |-> s1.exc])]

\* A faulty run(): the callback gets (oldValue, value).
runSwapped(s, w) ==
  LET compare(s1) ==
        IF s1.exc THEN s1
        ELSE IF \/ ~StrictEq(s1.ret, s1.watchers[w].value)
                \/ isObject(s1.ret)
                \/ s1.watchers[w].deep
          THEN runCatch(callback([s1 EXCEPT !.watchers[w].value = s1.ret],
                                  w, s1.watchers[w].value, s1.ret), w)
          ELSE s1
  IN  runReturns(s, IF s.watchers[w].active
                      THEN compare(get([s EXCEPT !.g.runs = Append(@, w)], w))
                      ELSE [s EXCEPT !.g.runs = Append(@, w)], w)

\* A faulty run(): value !== this.value is its whole test.
runIfChanged(s, w) ==
  LET compare(s1) ==
        IF s1.exc THEN s1
        ELSE IF ~StrictEq(s1.ret, s1.watchers[w].value)
          THEN runCatch(callback([s1 EXCEPT !.watchers[w].value = s1.ret],
                                  w, s1.ret, s1.watchers[w].value), w)
          ELSE s1
  IN  runReturns(s, IF s.watchers[w].active
                      THEN compare(get([s EXCEPT !.g.runs = Append(@, w)], w))
                      ELSE [s EXCEPT !.g.runs = Append(@, w)], w)

\* A faulty run(): it does not test this.active.
runAlways(s, w) ==
  LET compare(s1) ==
        IF s1.exc THEN s1
        ELSE IF \/ ~StrictEq(s1.ret, s1.watchers[w].value)
                \/ isObject(s1.ret)
                \/ s1.watchers[w].deep
          THEN runCatch(callback([s1 EXCEPT !.watchers[w].value = s1.ret],
                                  w, s1.ret, s1.watchers[w].value), w)
          ELSE s1
  IN  runReturns(s, compare(get([s EXCEPT !.g.runs = Append(@, w)], w)), w)

\* Watcher.run(); s1.ret is value, s1.watchers[w].value is this.value
run(s, w) ==
  LET compare(s1) ==
        IF s1.exc THEN s1
        ELSE IF \/ ~StrictEq(s1.ret, s1.watchers[w].value)
                \/ isObject(s1.ret)
                \/ s1.watchers[w].deep
          THEN runCatch(callback([s1 EXCEPT !.watchers[w].value = s1.ret],
                                  w, s1.ret, s1.watchers[w].value), w)
          ELSE s1
  IN  runReturns(s, IF s.watchers[w].active
                      THEN compare(get([s EXCEPT !.g.runs = Append(@, w)], w))
                      ELSE [s EXCEPT !.g.runs = Append(@, w)], w)

----------------------------------------------------------------------------
(* instance/events.js: $on, $once, $off, $emit of the scope                *)

\* The event the scope's code uses (not a hook: event), and the
\* functions it registers: function h () {} and function again () { if
\* (!flags.again) { flags.again = true; vm.$emit('e') } }.
Events == {"e"}
Handlers == {"h", "again"}

\* A function in vm._events: fn itself, or the closure `on` that the id-th
\* call of $once made for fn and event (on.fn = fn).
Fn(fn) == [id |-> 0, fn |-> fn, event |-> ""]
Closure(id, event, fn) == [id |-> id, fn |-> fn, event |-> event]
\* no function given
NoFn == [id |-> 0, fn |-> "", event |-> ""]

\* vm._events[event] when it is undefined or null
NoCbs == [defined |-> FALSE, cbs |-> <<>>]

\* Most handlers of one event, and most calls of $once.
MaxHandlers == 2
MaxOnce == 2

\* vm.$on(event, fn) for one event: (vm._events[event] ||
\* (vm._events[event] = [])).push(fn)
on(s, event, fn) ==
  [s EXCEPT !.events[event] = [defined |-> TRUE, cbs |-> Append(@.cbs, fn)]]

\* vm.$once(event, fn): function on () { vm.$off(event, on);
\* fn.apply(vm, arguments) }; on.fn = fn; vm.$on(event, on)
once(s, event, fn) ==
  LET id == Len(s.gOnce) + 1
  IN  on([s EXCEPT !.gOnce = Append(@, [event |-> event, fn |-> fn.fn, calls |-> 0])],
         event, Closure(id, event, fn.fn))

\* vm.$off(): vm._events = Object.create(null)
offAll(s) == [s EXCEPT !.events = [event \in Events |-> NoCbs]]

\* cb === fn || cb.fn === fn
Matches(cb, fn) == cb = fn \/ (cb.id > 0 /\ Fn(cb.fn) = fn)

\* vm.$off(event, fn) for one event; fn is NoFn if it is not given.  The
\* while (i--) loop removes the last handler that matches.
off(s, event, fn) ==
  LET cbs == s.events[event]
      hits == {i \in 1..Len(cbs.cbs) : Matches(cbs.cbs[i], fn)}
      i == CHOOSE h \in hits : \A h2 \in hits : h2 <= h
  IN  IF ~cbs.defined THEN s
      ELSE IF fn = NoFn THEN [s EXCEPT !.events[event] = NoCbs]
      ELSE IF hits = {} THEN s
      ELSE [s EXCEPT !.events[event].cbs =
              SubSeq(@, 1, i - 1) \o SubSeq(@, i + 1, Len(@))]

RECURSIVE emit(_, _)

\* fn.apply(vm, arguments) for the functions of Handlers
applyFn(s, fn) ==
  IF fn = "again" /\ "again" \notin s.flags
    THEN emit([s EXCEPT !.flags = @ \cup {"again"}], "e")
    ELSE s

\* cb.apply(vm, args) for a function in vm._events
applyCb(s, cb) ==
  LET called == [s EXCEPT !.g.handled = Append(@, cb)]
  IN  IF cb.id = 0 THEN applyFn(called, cb.fn)
      ELSE applyFn([off(called, cb.event, cb) EXCEPT !.gOnce[cb.id].calls = @ + 1],
                   cb.fn)

----------------------------------------------------------------------------
(* global-api/use.js: Vue.use                                              *)

\* The plugins the scope's code uses: { install () {} } ("object"),
\* function () {} ("function"), {} ("plain"), { install (Vue) { if
\* (!flags.plugin) { flags.plugin = true; Vue.use(this) } } } ("again") and
\* { install () { throw new Error() } } ("bad").
Plugins == {"object", "function", "plain", "again", "bad"}

\* The constructor.
Vue == [t |-> "fn", n |-> 0]

\* Most calls of one plugin's install function.
MaxInstalls == 2

\* arr.indexOf(item), from 0; -1 if arr has no such item
indexOf(arr, item) ==
  LET at == {i \in 1..Len(arr) : arr[i] = item}
  IN  IF at = {} THEN -1 ELSE (CHOOSE i \in at : \A j \in at : i <= j) - 1

RECURSIVE use(_, _)

\* plugin.install.apply(plugin, args) if plugin.install is a function,
\* plugin.apply(null, args) if plugin is
install(s, plugin) ==
  LET called == [s EXCEPT !.gInstalls[plugin] = @ + 1]
  IN  CASE plugin = "plain" -> s
        [] plugin = "bad" -> [called EXCEPT !.exc = TRUE]
        [] plugin = "again" ->
             IF "plugin" \in s.flags THEN called
             ELSE use([called EXCEPT !.flags = @ \cup {"plugin"}], plugin)
        [] OTHER -> called

\* Vue.use(plugin), with no more arguments; this._installedPlugins is []
\* until the first call makes it
use(s, plugin) ==
  LET push(s1) == IF s1.exc THEN s1
                  ELSE [s1 EXCEPT !.installedPlugins = Append(@, plugin),
                                  !.ret = Vue]
  IN  IF indexOf(s.installedPlugins, plugin) > -1 THEN [s EXCEPT !.ret = Vue]
      ELSE push(install(s, plugin))

----------------------------------------------------------------------------
(* lifecycle.js: hooks                                                     *)

\* vm.$options[hook]: the handler the options give for the hook
handlerOf(s, vm, hook) ==
  IF vm < 0 /\ hook = "beforeDestroy" THEN s.scopes[0 - vm].options.beforeDestroy
  ELSE "none"

\* util invokeWithErrorHandling(handler, vm, null, vm, info): the handler
\* (of a hook, or a function in vm._events) is called, and an error it
\* throws is handed to handleError
invokeWithErrorHandling(s, handler, vm, info) ==
  LET k == 0 - vm
      report(s1) == IF s1.exc THEN [handleError(s1, vm, info) EXCEPT !.exc = FALSE]
                    ELSE s1
  IN  report(CASE info = "event handler" -> applyCb(s, handler)
               [] handler = "none" -> s
               [] handler = "reads" -> reactiveGetter(s, "flag")
               [] handler = "throws" -> [reactiveGetter(s, "flag") EXCEPT !.exc = TRUE]
               [] handler = "destroys" ->
                    IF s.scopes[k].again THEN s
                    ELSE destroy([s EXCEPT !.scopes[k].again = TRUE], k))

\* History: the call of callHook is recorded with the number of run() calls
\* made before it, and in the scope if new Vue(options) made it and the
\* hook is one of mounting or destroying it.
hookCalled(s, vm, hook) ==
  LET s1 == [s EXCEPT !.g.hooks = Append(@,
                        [vm |-> vm, hook |-> hook, runs |-> Len(s.g.runs)])]
  IN  IF vm < 0 /\ hook \notin {"beforeUpdate", "updated"}
        THEN [s1 EXCEPT !.scopes[0 - vm].gHooks = Append(@, hook)]
        ELSE s1

\* A faulty callHook(): the handlers run with Dep.target as it is.
callHookTracked(s, vm, hook) ==
  LET h == handlerOf(s, vm, hook)
      end(s2) == IF h = "none" THEN s2 ELSE guarded(s, s, s2, "callHook", vm, h)
  IN  end(invokeWithErrorHandling(hookCalled(s, vm, hook), h, vm, hook))

\* callHook(vm, hook): the handlers run with dependency collection disabled
\* (pushTarget() with no Watcher); the scopes have no hook events
callHook(s, vm, hook) ==
  LET h == handlerOf(s, vm, hook)
      handlers(s1) ==
        LET end(s2) == IF h = "none" THEN s2
                       ELSE guarded(s, s1, s2, "callHook", vm, h)
        IN  end(popTarget(invokeWithErrorHandling(hookCalled(s1, vm, hook),
                                                  h, vm, hook)))
  IN  handlers(pushTarget(s, NoTarget))

\* the for loop of $emit over cbs[i], from 1
RECURSIVE emitLoop(_, _, _)
emitLoop(s, cbs, i) ==
  IF i > Len(cbs) THEN s
  ELSE emitLoop(invokeWithErrorHandling(s, cbs[i], Self, "event handler"),
                cbs, i + 1)

\* vm.$emit(event), with no more arguments.  cbs is a copy of the list if
\* it has more than one handler, and the loop's bound is taken before the
\* first call: the handlers called are those of the list as $emit found it.
emit(s, event) ==
  LET cbs == s.events[event]
      begun == [s EXCEPT !.g.emits = Append(@, [event |-> event, cbs |-> cbs.cbs])]
  IN  IF cbs.defined THEN emitLoop(begun, cbs.cbs, 1) ELSE begun

\* the while (i--) loop of $destroy over vm._watchers[i], i = i down to 1
RECURSIVE destroyLoop(_, _, _)
destroyLoop(s, k, i) ==
  IF i = 0 THEN s
  ELSE destroyLoop(teardown(s, s.scopes[k].watchers[i]), k, i - 1)

\* vm.$destroy() of the k-th scope made by new Vue(options): it has no
\* parent, its patch makes and destroys no scopes, and $off() finds no
\* listeners
destroy(s, k) ==
  LET called(s4) == callHook([s4 EXCEPT !.scopes[k].isDestroyed = TRUE],
                             NameOf(k), "destroyed")
      count(s3) == LET n == s3.scopes[k].data
                   IN  IF s3.heap[n].ob # NoOb
                         THEN [s3 EXCEPT !.heap[n].vmCount = @ - 1,
                                         !.scopes[k].gDecrements = @ + 1]
                         ELSE s3
      loop(s2) == destroyLoop(s2, k, Len(s2.scopes[k].watchers))
      render(s1) == IF s1.scopes[k].watcher # NoWatcher
                      THEN teardown(s1, s1.scopes[k].watcher)
                      ELSE s1
      begin(s0) == [s0 EXCEPT !.scopes[k].isBeingDestroyed = TRUE]
  IN  IF s.scopes[k].isBeingDestroyed THEN s
      ELSE called(count(loop(render(begin(
             callHook(s, NameOf(k), "beforeDestroy"))))))

\* History: before() of the render Watcher w is called.
beforeCalled(s, w) ==
  LET vm == s.watchers[w].vm
  IN  IF vm = Self THEN s
      ELSE [s EXCEPT !.g.befores = Append(@,
              [w |-> w, vm |-> NameOf(vm), hooks |-> Len(s.g.hooks),
               isMounted |-> s.scopes[vm].isMounted,
               isDestroyed |-> s.scopes[vm].isDestroyed])]

\* A faulty before(): the hook is called whatever the scope's flags.
beforeAlways(s, w) ==
  LET vm == s.watchers[w].vm
  IN  callHook(beforeCalled(s, w), IF vm = Self THEN w ELSE NameOf(vm),
               "beforeUpdate")

\* watcher.before(): the option mountComponent gives the render Watcher:
\* if (vm._isMounted && !vm._isDestroyed) callHook(vm, 'beforeUpdate').  The
\* scopes whose render Watchers Construct makes are mounted and their code
\* never destroys them.
before(s, w) ==
  LET vm == s.watchers[w].vm
  IN  IF vm = Self THEN callHook(s, w, "beforeUpdate")
      ELSE IF s.scopes[vm].isMounted /\ ~s.scopes[vm].isDestroyed
        THEN callHook(beforeCalled(s, w), NameOf(vm), "beforeUpdate")
        ELSE beforeCalled(s, w)

----------------------------------------------------------------------------
(* scheduler.js                                                            *)

\* Runs of one Watcher within one flush beyond which it is taken to be
\* re-queuing itself for ever.
MaxUpdateCount == 2

\* arr.sort((a, b) => a.id - b.id) on a list of Watchers (a stable sort)
RECURSIVE InsertById(_, _, _)
InsertById(ws, sorted, w) ==
  IF sorted = <<>> THEN <<w>>
  ELSE IF ws[w].id < ws[Head(sorted)].id THEN <<w>> \o sorted
  ELSE <<Head(sorted)>> \o InsertById(ws, Tail(sorted), w)

RECURSIVE SortById(_, _)
SortById(ws, arr) ==
  IF arr = <<>> THEN <<>>
  ELSE InsertById(ws, SortById(ws, SubSeq(arr, 1, Len(arr) - 1)), arr[Len(arr)])

\* Position after which a Watcher queued during a flush is put: behind every
\* Watcher the cursor has not reached whose id is not larger, or at the end
\* when the cursor has passed its id.
RECURSIVE spliceAt(_, _, _)
spliceAt(s, w, i) ==
  IF i > s.index + 1 /\ s.watchers[s.queue[i]].id > s.watchers[w].id
    THEN spliceAt(s, w, i - 1)
    ELSE i

\* A faulty enqueue: during a flush the Watcher goes to its sorted position
\* in the whole queue, also when the cursor has passed it.
enqueueSorted(s, w) ==
  IF ~s.flushing THEN Append(s.queue, w)
  ELSE InsertById(s.watchers, s.queue, w)

\* A faulty enqueue: the Watcher goes to the end of the queue, flush or not.
enqueueLast(s, w) == Append(s.queue, w)

\* the queue with w put into it
enqueue(s, w) ==
  LET id == s.watchers[w].id
      cur == s.watchers[s.queue[s.index + 1]].id
      i == spliceAt(s, w, Len(s.queue))
  IN  IF ~s.flushing THEN Append(s.queue, w)
      ELSE IF id > cur
        THEN SubSeq(s.queue, 1, i) \o <<w>> \o SubSeq(s.queue, i + 1, Len(s.queue))
        ELSE Append(s.queue, w)

\* History: a call of queueWatcher(w) that found the scheduler as in s and
\* left it as in s1.
queuedAs(s, s1, w) ==
  [s1 EXCEPT !.g.queued = Append(@,
     [w |-> w, pending |-> s.watchers[w].id \in s.has,
      flushing |-> s1.flushing, index |-> s1.index,
      queueBefore |-> s.queue, queue |-> s1.queue,
      has |-> s1.has, scheduledBefore |-> s.scheduled,
      scheduled |-> s1.scheduled, runs |-> Len(s1.g.runs)])]

\* A faulty queueWatcher: it does not look whether the id is pending.
queueWatcherTwice(s, w) ==
  queuedAs(s, [s EXCEPT !.has = @ \cup {s.watchers[w].id},
                        !.queue = enqueue(s, w),
                        !.waiting = TRUE,
                        !.scheduled = IF s.waiting THEN @ ELSE @ + 1], w)

\* A faulty queueWatcher: every call that queues hands a flush to the next tick.
queueWatcherEager(s, w) ==
  queuedAs(s, IF s.watchers[w].id \in s.has THEN s
              ELSE [s EXCEPT !.has = @ \cup {s.watchers[w].id},
                             !.queue = enqueue(s, w),
                             !.waiting = TRUE,
                             !.scheduled = @ + 1], w)

\* queueWatcher(watcher); when no flush is waiting or in progress, one is
\* handed to the next tick
queueWatcher(s, w) ==
  queuedAs(s, IF s.watchers[w].id \in s.has THEN s
              ELSE [s EXCEPT !.has = @ \cup {s.watchers[w].id},
                             !.queue = enqueue(s, w),
                             !.waiting = TRUE,
                             !.scheduled = IF s.waiting THEN @ ELSE @ + 1], w)

\* History: a call of update() on w found the program as in s and returns
\* leaving it as in s1; what was called in between is counted.
updateReturns(s, s1, w) ==
  [s1 EXCEPT !.g.returned = Append(@,
     [w |-> w,
      evals |-> Len(s1.g.evals) - Len(s.g.evals),
      runs |-> SubSeq(s1.g.runs, Len(s.g.runs) + 1, Len(s1.g.runs)),
      cbs |-> Len(s1.g.cbs) - Len(s.g.cbs),
      queued |-> SubSeq(s1.g.queued, Len(s.g.queued) + 1, Len(s1.g.queued)),
      frames |-> Len(s1.g.frames) - Len(s.g.frames),
      watchersSame |-> s1.watchers = s.watchers,
      onlyDirty |-> s1.watchers = [s.watchers EXCEPT ![w].dirty = TRUE],
      queueSame |-> s1.queue = s.queue /\ s1.has = s.has,
      threw |-> s1.exc])]

\* A faulty update(): a Watcher that is not lazy runs at once, queued or not.
updateAtOnce(s, w) ==
  LET s0 == [s EXCEPT !.g.updates = Append(@, w)]
  IN  updateReturns(s, IF s.watchers[w].lazy
                         THEN [s0 EXCEPT !.watchers[w].dirty = TRUE]
                         ELSE run(s0, w), w)

\* A faulty update(): it does not look at this.lazy.
updateNotLazy(s, w) ==
  LET s0 == [s EXCEPT !.g.updates = Append(@, w)]
  IN  updateReturns(s, IF s.watchers[w].sync THEN run(s0, w)
                       ELSE queueWatcher(s0, w), w)

\* Watcher.update()
update(s, w) ==
  LET s0 == [s EXCEPT !.g.updates = Append(@, w)]
  IN  updateReturns(s, IF s.watchers[w].lazy THEN [s0 EXCEPT !.watchers[w].dirty = TRUE]
                       ELSE IF s.watchers[w].sync THEN run(s0, w)
                       ELSE queueWatcher(s0, w), w)

resetSchedulerState(s) ==
  [s EXCEPT !.index = 0, !.queue = <<>>, !.has = {}, !.circular = <<>>,
            !.waiting = FALSE, !.flushing = FALSE]

\* A faulty test of the bound: it lets one run too many through.
overBoundLate(s, w) == Count(s.circular, s.watchers[w].id) > MaxUpdateCount

\* the Watcher has had its runs in this flush
overBound(s, w) == Count(s.circular, s.watchers[w].id) >= MaxUpdateCount

\* the Watcher is reported and dropped from the flush
drop(s, w) ==
  [handleError(s, w, "circular") EXCEPT
     !.g.dropped = Append(@, [w |-> w, runs |-> Len(s.g.runs)])]

\* one Watcher of the flush: its before hook, then run()
flushOne(s, w) ==
  run(IF s.watchers[w].before THEN before(s, w) ELSE s, w)

\* the for loop of flushSchedulerQueue: has[id] = null, then the Watcher is
\* dropped or run
RECURSIVE flushLoop(_)
flushLoop(s) ==
  LET w == s.queue[s.index + 1]
      next(s2) == IF s2.exc THEN s2 ELSE flushLoop([s2 EXCEPT !.index = @ + 1])
      step(s1) == IF overBound(s1, w) THEN drop(s1, w)
                  ELSE flushOne([s1 EXCEPT !.circular = Append(@, s1.watchers[w].id)], w)
  IN  IF s.index >= Len(s.queue) THEN s
      ELSE next(step([s EXCEPT !.has = @ \ {s.watchers[w].id}]))

\* callUpdatedHooks(queue): while (i--), the updated hook of the scope whose
\* render Watcher queue[i] is (the scopes here are mounted and not destroyed)
RECURSIVE callUpdatedHooks(_, _, _)
callUpdatedHooks(s, updatedQueue, i) ==
  IF i = 0 THEN s
  ELSE LET w == updatedQueue[i]
           vm == s.watchers[w].vm
       IN  callUpdatedHooks(
             IF ~s.watchers[w].isRenderWatcher THEN s
             ELSE IF vm = Self THEN callHook(s, w, "updated")
             ELSE IF /\ s.scopes[vm].watcher = w
                     /\ s.scopes[vm].isMounted
                     /\ ~s.scopes[vm].isDestroyed
               THEN callHook(s, NameOf(vm), "updated")
               ELSE s,
             updatedQueue, i - 1)

\* the main pass, then the scheduler is reset and the hooks collected during
\* the pass are called, last registered first
flushSchedulerQueue(s) ==
  LET end(s2) == IF s2.exc THEN s2
                 ELSE callUpdatedHooks(resetSchedulerState(s2), s2.queue, Len(s2.queue))
  IN  end(flushLoop([s EXCEPT !.flushing = TRUE,
                              !.queue = SortById(s.watchers, @),
                              !.index = 0]))

\* the callbacks registered with afterFlush are run and forgotten
RECURSIVE runAfterFlush(_)
runAfterFlush(s) ==
  IF s.afterFlushCbs = <<>> THEN s
  ELSE runAfterFlush(invoke([s EXCEPT !.afterFlushCbs = Tail(@)],
                            Head(s.afterFlushCbs)))

\* what the next tick runs: the flush, then the callbacks that waited for it
flushThenCallbacks(s) ==
  LET completed(s2) == IF s2.exc THEN s2 ELSE runAfterFlush(s2)
  IN  completed(flushSchedulerQueue(s))

----------------------------------------------------------------------------
(* dep.js notify, and the setter of defineReactive                         *)

\* config.async (its default)
async == TRUE

\* History: the notify() in progress begun last calls update() on w.
calls(s, w) ==
  [s EXCEPT !.g.passes[s.g.inPass[Len(s.g.inPass)]].called = Append(@, w)]

\* History: notify() of Dep d begins, returns.
passBegins(s, d) ==
  [s EXCEPT !.g.notified = Append(@, d),
            !.g.inPass = Append(@, Len(s.g.passes) + 1),
            !.g.passes = Append(@, [dep |-> d, subs |-> s.subs[d], called |-> <<>>,
                                    subsAfter |-> <<>>, threw |-> FALSE,
                                    returned |-> FALSE])]
passReturns(s, d) ==
  [s EXCEPT !.g.inPass = SubSeq(@, 1, Len(@) - 1),
            !.g.passes[s.g.inPass[Len(s.g.inPass)]] =
               [@ EXCEPT !.subsAfter = s.subs[d], !.threw = s.exc, !.returned = TRUE]]

\* the for loop of notify over the snapshot subs
RECURSIVE notifyLoop(_, _, _)
notifyLoop(s, snapshot, i) ==
  LET next(s1) == IF s1.exc THEN s1 ELSE notifyLoop(s1, snapshot, i + 1)
  IN  IF i > Len(snapshot) THEN s
      ELSE next(update(calls(s, snapshot[i]), snapshot[i]))

\* A for loop over this.subs as it is when each subscriber's turn comes.
RECURSIVE notifyLiveLoop(_, _, _)
notifyLiveLoop(s, d, i) ==
  LET next(s1) == IF s1.exc THEN s1 ELSE notifyLiveLoop(s1, d, i + 1)
  IN  IF i > Len(s.subs[d]) THEN s
      ELSE next(update(calls(s, s.subs[d][i]), s.subs[d][i]))

\* A faulty notify(): it takes no copy of this.subs.
notifyLive(s, d) ==
  passReturns(notifyLiveLoop(passBegins(s, d), d, 1), d)

\* Dep.notify()
notify(s, d) ==
  passReturns(notifyLoop(passBegins(s, d),
                         IF ~async THEN SortById(s.watchers, s.subs[d]) ELSE s.subs[d],
                         1), d)

\* A faulty reactiveSetter: newVal === value is its whole test.
reactiveSetterStrict(s, p, newVal) ==
  LET value == s.data[p]
  IN  IF StrictEq(newVal, value)
        THEN s
        ELSE IF propertyGet(p) /\ ~propertySet(p) THEN s
        ELSE LET keep(s2) == [s2 EXCEPT !.childOb[p] = s2.ob]
             IN  notify(keep(observe([s EXCEPT !.data[p] = newVal], newVal, FALSE)),
                        DepOf[p])

\* A faulty reactiveSetter: childOb stays what it was.
reactiveSetterStale(s, p, newVal) ==
  LET value == s.data[p]
  IN  IF StrictEq(newVal, value) \/ (~StrictEq(newVal, newVal) /\ ~StrictEq(value, value))
        THEN s
        ELSE IF propertyGet(p) /\ ~propertySet(p) THEN s
        ELSE notify([s EXCEPT !.data[p] = newVal], DepOf[p])

\* reactiveSetter of the tracked property p (customSetter only warns;
\* setter.call(obj, newVal) and val = newVal both store into data[p])
reactiveSetter(s, p, newVal) ==
  LET value == s.data[p]
  IN  IF StrictEq(newVal, value) \/ (~StrictEq(newVal, newVal) /\ ~StrictEq(value, value))
        THEN s
        ELSE IF propertyGet(p) /\ ~propertySet(p) THEN s
        ELSE LET keep(s2) == [s2 EXCEPT !.childOb[p] = s2.ob]
             IN  notify(keep(observe([s EXCEPT !.data[p] = newVal], newVal, FALSE)),
                        DepOf[p])

\* obj[key] = newVal for the extensible object n: a new data property, a
\* data property assigned, or the reactiveSetter defineReactive made
keySetter(s, n, key, newVal) ==
  LET i == KeyAt(s.heap[n].props, key)
      pr == s.heap[n].props[i]
      keep(s2) == [s2 EXCEPT !.heap[n].props[i].childOb = s2.ob]
  IN  IF i = 0 THEN [s EXCEPT !.heap[n].props = Append(@, Plain(key, newVal))]
      ELSE IF pr.dep = NoOb THEN [s EXCEPT !.heap[n].props[i].val = newVal]
      ELSE IF StrictEq(newVal, pr.val)
                \/ (~StrictEq(newVal, newVal) /\ ~StrictEq(pr.val, pr.val))
        THEN s
        ELSE notify(keep(observe([s EXCEPT !.heap[n].props[i].val = newVal],
                                 newVal, FALSE)),
                    pr.dep)

\* util warn(msg): a warning is reported, nothing is thrown
warn(s, msg) == [s EXCEPT !.g.warnings = Append(@, msg)]

\* Most items the scope's code puts into one array.
MaxLength == 3

\* holes up to length n: target.length = n on a shorter array
RECURSIVE Lengthen(_, _)
Lengthen(items, n) ==
  IF Len(items) >= n THEN items ELSE Lengthen(Append(items, Undefined), n)

\* Array.prototype.splice(start, deleteCount, ...inserted), 0 <= start
Splice(items, start, deleteCount, inserted) ==
  LET from == IF start > Len(items) THEN Len(items) ELSE start
      upto == IF from + deleteCount > Len(items) THEN Len(items)
              ELSE from + deleteCount
  IN  SubSeq(items, 1, from) \o inserted \o SubSeq(items, upto + 1, Len(items))

\* target.splice(...) of the array n: Array.prototype.splice, and for an
\* array that has an Observer the method that intercepts it: the effect,
\* then the inserted items are observed and the Observer's Dep notifies
splice(s, n, start, deleteCount, inserted) ==
  LET o == s.heap[n]
      s1 == [s EXCEPT !.heap[n].items = Splice(@, start, deleteCount, inserted)]
  IN  IF o.ob = NoOb THEN s1
      ELSE notify(observeArray(s1, inserted, 1), o.ob)

\* A faulty set(): the length of the array is left as it is.
extendNot(s, n, key) == s

\* target.length = Math.max(target.length, key)
extend(s, n, key) ==
  [s EXCEPT !.heap[n].items = Lengthen(@, IF Len(@) > key.i THEN Len(@) ELSE key.i)]

\* key in target && !(key in Object.prototype): an own key, a declared key
\* of vm._data, or a key of vm, which hands the declared keys on to vm._data
\* (none of the keys is one of Object.prototype; an index is in an array
\* when it is below its length)
inTarget(s, n, key) ==
  \/ hasOwn(s.heap[n], key)
  \/ n \in {Root, Vm} /\ ~key.ix /\ key.name \in Props
  \/ s.heap[n].kind = "array" /\ key.ix /\ key.i < Len(s.heap[n].items)

\* target[key] = val of set for a key that is in target
assignKey(s, n, key, val) ==
  IF n \in {Root, Vm} /\ key.name \in Props
    THEN reactiveSetter(s, key.name, val)
    ELSE keySetter(s, n, key, val)

\* A faulty set(): ob.dep.notify() is left out.
setQuiet(s, n, key, val) ==
  LET obj == s.heap[n]
      ob == obj.ob
      return(s1) == [s1 EXCEPT !.ret = val]
  IN  return(
        IF obj.kind = "array" /\ isValidArrayIndex(key)
          THEN splice(extend(s, n, key), n, key.i, 1, <<val>>)
        ELSE IF inTarget(s, n, key) THEN assignKey(s, n, key, val)
        ELSE IF obj.isVue \/ (ob # NoOb /\ obj.vmCount # 0)
          THEN warn(s, "Avoid adding reactive properties")
        ELSE IF ob = NoOb THEN keySetter(s, n, key, val)
        ELSE defineReactive(s, n, key, val))

\* set(target, key, val) for the object n (no target here is undefined,
\* null or a primitive value)
set(s, n, key, val) ==
  LET obj == s.heap[n]
      ob == obj.ob
      return(s1) == [s1 EXCEPT !.ret = val]
  IN  return(
        IF obj.kind = "array" /\ isValidArrayIndex(key)
          THEN splice(extend(s, n, key), n, key.i, 1, <<val>>)
        ELSE IF inTarget(s, n, key) THEN assignKey(s, n, key, val)
        ELSE IF obj.isVue \/ (ob # NoOb /\ obj.vmCount # 0)
          THEN warn(s, "Avoid adding reactive properties")
        ELSE IF ob = NoOb THEN keySetter(s, n, key, val)
        ELSE notify(defineReactive(s, n, key, val), ob))

\* A faulty del(): ob.dep.notify() also for a key the target has not.
delAlways(s, n, key) ==
  LET obj == s.heap[n]
      ob == obj.ob
      s1 == [s EXCEPT !.heap[n].props = Without(@, key)]
  IN  IF obj.kind = "array" /\ isValidArrayIndex(key)
        THEN splice(s, n, key.i, 1, <<>>)
      ELSE IF obj.isVue \/ (ob # NoOb /\ obj.vmCount # 0)
        THEN warn(s, "Avoid deleting properties")
      ELSE IF ob = NoOb THEN s1
      ELSE notify(s1, ob)

\* del(target, key) for the object n
del(s, n, key) ==
  LET obj == s.heap[n]
      ob == obj.ob
      s1 == [s EXCEPT !.heap[n].props = Without(@, key)]
  IN  IF obj.kind = "array" /\ isValidArrayIndex(key)
        THEN splice(s, n, key.i, 1, <<>>)
      ELSE IF obj.isVue \/ (ob # NoOb /\ obj.vmCount # 0)
        THEN warn(s, "Avoid deleting properties")
      ELSE IF ~hasOwn(obj, key) THEN s
      ELSE IF ob = NoOb THEN s1
      ELSE notify(s1, ob)

----------------------------------------------------------------------------
(* watcher.js constructor                                                  *)

\* A faulty id counter: it counts down.
nextUidDown(u) == u - 1

\* this.id = ++uid
nextUid(u) == u + 1

\* new Watcher(vm, expOrFn, cb, options, isRenderWatcher)
newWatcher(s, vm, kind, fn) ==
  LET w == Len(s.watchers) + 1
      lazy == kind = "computed"
      id == nextUid(s.uid)
      this == [vm |-> vm, id |-> id, getter |-> fn,
               cb |-> CASE kind = "watchBad" -> "throws"
                        [] kind = "watchOnce" -> "unwatch"
                        [] OTHER -> "returns",
               deep |-> kind = "watchDeep",
               user |-> kind \in {"watch", "watchSync", "watchDeep", "watchBad",
                                  "watchOnce"},
               lazy |-> lazy, sync |-> kind = "watchSync",
               before |-> kind = "render", isRenderWatcher |-> kind = "render",
               active |-> TRUE, dirty |-> lazy,
               deps |-> <<>>, newDeps |-> <<>>, depIds |-> {}, newDepIds |-> {},
               value |-> Undefined]
      \* vm._watcher = this; vm._watchers.push(this)
      s0 == IF vm = Self THEN [s EXCEPT !.vmWatchers = Append(@, w)]
            ELSE [s EXCEPT !.scopes[vm].watchers = Append(@, w),
                           !.scopes[vm].watcher =
                              IF kind = "render" THEN w ELSE @]
      s1 == [s0 EXCEPT !.uid = id,
                       !.watchers = Append(@, this),
                       !.gSeen = Append(@, {}), !.gEver = Append(@, {})]
      assign(s2) == IF s2.exc THEN s2 ELSE [s2 EXCEPT !.watchers[w].value = s2.ret]
  IN  assign(IF lazy THEN [s1 EXCEPT !.ret = Undefined] ELSE get(s1, w))

\* mountComponent(vm) of the k-th scope made by new Vue(options), which has
\* a render function; if (vm.$vnode == null) { vm._isMounted = true;
\* callHook(vm, 'mounted') }
mountComponent(s, k) ==
  LET mounted(s2) == IF s2.exc \/ s2.scopes[k].options.parentVnode THEN s2
                     ELSE callHook([s2 EXCEPT !.scopes[k].isMounted = TRUE],
                                   NameOf(k), "mounted")
      watch(s1) == newWatcher(s1, k, "render", s1.scopes[k].options.render)
  IN  mounted(watch(callHook(s, NameOf(k), "beforeMount")))

----------------------------------------------------------------------------
(* The state machine                                                       *)

\* What one entry point has done so far.
Fresh(name, w, p, v) ==
  [op |-> [name |-> name, w |-> w, p |-> p, v |-> v, n |-> Root, key |-> Key(""),
           vm |-> Self],
   \* the state it started from
   pre |-> [queue |-> queue, seen |-> gSeen, afterFlushCbs |-> afterFlushCbs,
            heap |-> heap, depUid |-> depUid, childOb |-> childOb,
            installedPlugins |-> installedPlugins, installs |-> gInstalls,
            used |-> gUsed,
            val |-> IF p \in Props THEN data[p] ELSE Undefined,
            value |-> [i \in 1..Len(watchers) |-> watchers[i].value],
            active |-> [i \in 1..Len(watchers) |-> watchers[i].active]],
   \* get() calls in progress, innermost last
   frames |-> <<>>,
   \* the calls made, in order: Dep.depend() with a target, get() (recorded
   \* as it returns), run(), this.cb.call(), update(), notify(), handleError()
   reads |-> <<>>, evals |-> <<>>, runs |-> <<>>, cbs |-> <<>>,
   updates |-> <<>>, notified |-> <<>>, errors |-> <<>>,
   \* the notify() calls, in the order they began: the Dep, its subs as the
   \* call began and returned and the Watchers it called update() on; the
   \* calls in progress, innermost last
   passes |-> <<>>, inPass |-> <<>>,
   \* update() and run() calls that returned, in order, with what each did
   returned |-> <<>>, ran |-> <<>>,
   \* the scheduler's calls, in order: queueWatcher() (with the scheduler state
   \* it left), Watchers dropped from the flush; runs is the number of run()
   \* calls begun before
   queued |-> <<>>, dropped |-> <<>>,
   \* lifecycle hooks called, in order; the calls of callHook with a
   \* handler and of getData as they returned; the calls of before() of the
   \* render Watchers of scopes made by new Vue(options)
   hooks |-> <<>>, guards |-> <<>>, befores |-> <<>>,
   \* the $emit calls begun, and the handlers they called, in order
   emits |-> <<>>, handled |-> <<>>,
   \* afterFlush callbacks registered and called, in order
   registered |-> <<>>, after |-> <<>>,
   \* the keys defineReactive gave an accessor, the objects that got an
   \* Observer and the warnings reported, in order
   defined |-> <<>>, observers |-> <<>>, warnings |-> <<>>,
   \* what observe() returned to the scope's code, and what a read of the
   \* computed property returned to it
   ob |-> NoOb, ret |-> Undefined,
   \* an exception left the entry point
   thrown |-> FALSE]

\* The program state an entry point starts from.
St(name, w, p, v) ==
  [data |-> data, subs |-> subs, watchers |-> watchers, uid |-> uid,
   vmWatchers |-> vmWatchers, computedWatchers |-> computedWatchers,
   isBeingDestroyed |-> isBeingDestroyed,
   targetStack |-> targetStack, target |-> target,
   queue |-> queue, has |-> has, flushing |-> flushing, waiting |-> waiting,
   index |-> index, circular |-> circular, scheduled |-> scheduled,
   afterFlushCbs |-> afterFlushCbs, heap |-> heap, childOb |-> childOb,
   depUid |-> depUid, shouldObserve |-> shouldObserve, scopes |-> scopes,
   events |-> events, installedPlugins |-> installedPlugins, flags |-> flags,
   gOnce |-> gOnce, gInstalls |-> gInstalls, gUsed |-> gUsed,
   gSeen |-> gSeen, gEver |-> gEver,
   g |-> Fresh(name, w, p, v), ret |-> Undefined, ob |-> NoOb, exc |-> FALSE]

\* The same for an entry point that is given the object n and a key.
StOn(name, n, key, v) ==
  [St(name, NoWatcher, "", v) EXCEPT !.g.op.n = n, !.g.op.key = key]

\* The same for an entry point of the k-th scope made by new Vue(options).
StOf(name, k) ==
  [St(name, NoWatcher, "", Undefined) EXCEPT !.g.op.vm = k]

\* The state an entry point leaves; an exception that left it went to its caller.
Commit(s) ==
  /\ data' = s.data
  /\ subs' = s.subs
  /\ watchers' = s.watchers
  /\ uid' = s.uid
  /\ vmWatchers' = s.vmWatchers
  /\ computedWatchers' = s.computedWatchers
  /\ isBeingDestroyed' = s.isBeingDestroyed
  /\ targetStack' = s.targetStack
  /\ target' = s.target
  /\ queue' = s.queue
  /\ has' = s.has
  /\ flushing' = s.flushing
  /\ waiting' = s.waiting
  /\ index' = s.index
  /\ circular' = s.circular
  /\ scheduled' = s.scheduled
  /\ afterFlushCbs' = s.afterFlushCbs
  /\ heap' = s.heap
  /\ childOb' = s.childOb
  /\ depUid' = s.depUid
  /\ shouldObserve' = s.shouldObserve
  /\ scopes' = s.scopes
  /\ events' = s.events
  /\ installedPlugins' = s.installedPlugins
  /\ flags' = s.flags
  /\ gOnce' = s.gOnce
  /\ gInstalls' = s.gInstalls
  /\ gUsed' = s.gUsed
  /\ gSeen' = s.gSeen
  /\ gEver' = s.gEver
  /\ g' = [s.g EXCEPT !.thrown = s.exc]

Init ==
  /\ data = [flag |-> Num(1), a |-> Num(1), b |-> Num(1), ro |-> Num(1),
             box |-> Obj(Boxed)]
  /\ subs = [d \in Deps |-> <<>>]
  /\ watchers = <<>>
  /\ uid = 0
  /\ vmWatchers = <<>>
  /\ computedWatchers = NoWatcher
  /\ isBeingDestroyed = FALSE
  /\ targetStack = <<>>
  /\ target = NoTarget
  /\ queue = <<>>
  /\ has = {}
  /\ flushing = FALSE
  /\ waiting = FALSE
  /\ index = 0
  /\ circular = <<>>
  /\ scheduled = 0
  /\ afterFlushCbs = <<>>
  /\ heap = [n \in Objects |->
               [kind |-> IF n = List THEN "array" ELSE "plain",
                extensible |-> n # Frozen,
                isVue |-> n = Vm,
                ob |-> CASE n = Root -> 0 [] n = Boxed -> BoxedOb [] OTHER -> NoOb,
                vmCount |-> IF n = Root THEN 1 ELSE 0,
                props |-> IF n \in {Loose, Frozen} THEN <<Plain(Key("k"), Num(1))>>
                          ELSE <<>>,
                items |-> <<>>]]
  /\ childOb = [p \in Props |-> IF p = "box" THEN BoxedOb ELSE NoOb]
  /\ depUid = BoxedOb + 1
  /\ shouldObserve = TRUE
  /\ scopes = <<>>
  /\ events = [event \in Events |-> NoCbs]
  /\ installedPlugins = <<>>
  /\ flags = {}
  /\ gOnce = <<>>
  /\ gInstalls = [plugin \in Plugins |-> 0]
  /\ gUsed = {}
  /\ gSeen = <<>>
  /\ gEver = <<>>
  /\ g = Fresh("init", NoWatcher, "", Undefined)

\* new Watcher(...) by mountComponent, vm.$watch or initComputed, for one of
\* the Watchers <<kind, evaluation function>> of menu
ConstructUpTo(menu, most) ==
  \E tpl \in menu :
    /\ Len(watchers) < most
    /\ tpl[1] = "computed" => computedWatchers = NoWatcher
    /\ LET w == Len(watchers) + 1
           \* watchers[key] = new Watcher(...) of initComputed
           keep(s) == IF tpl[1] = "computed" /\ ~s.exc
                        THEN [s EXCEPT !.computedWatchers = w]
                        ELSE s
       IN  Commit(keep(newWatcher(St("new", w, tpl[2], Undefined), Self, tpl[1], tpl[2])))

Construct(menu) == ConstructUpTo(menu, MaxWatchers)

\* vm[p] = v, for one of the assignments <<p, v>> of the scope's code
Write(assignments) ==
  \E pv \in assignments :
    Commit(reactiveSetter(St("write", NoWatcher, pv[1], pv[2]), pv[1], pv[2]))

Flags == {Num(0), Num(1)}
Numbers == {Num(1), Num(2)}

\* vm.c read by code that is not a Watcher's evaluation
ReadComputed ==
  /\ computedWatchers # NoWatcher
  /\ LET return(s) == IF s.exc THEN s ELSE [s EXCEPT !.g.ret = s.ret]
     IN  Commit(return(computedGetter(St("read", NoWatcher, "c", Undefined), "c")))

\* watcher.teardown(), the unwatch function $watch returns
Teardown ==
  \E w \in 1..Len(watchers) :
    Commit(teardown(St("teardown", w, "", Undefined), w))

\* the next tick: a flush queueWatcher handed to it starts
Flush ==
  /\ scheduled > 0
  /\ Commit(flushThenCallbacks([St("flush", NoWatcher, "", Undefined)
                                  EXCEPT !.scheduled = @ - 1]))

\* The scope's code adds keys with Vue.set as long as Dep.id stays within this.
MaxDeps == 8

\* Vue.set(target, key, val) and Vue.delete(target, key) called by the scope's
\* code, for one of the targets, keys and values given
Keys == {"k"}
SetKey(targets, keys, vals) ==
  \E n \in targets, key \in keys, val \in vals :
    LET done(s) == s.depUid <= MaxDeps /\ Commit(s)
    IN  /\ heap[n].kind = "array" => key.ix /\ key.i < MaxLength
        /\ done(set(StOn("set", n, key, val), n, key, val))
DelKey(targets, keys) ==
  \E n \in targets, key \in keys :
    Commit(del(StOn("del", n, key, Undefined), n, key))

\* observe(value) called by the scope's code (Vue.observable(value))
Observe(values) ==
  \E value \in values :
    LET return(s) == [s EXCEPT !.g.ob = s.ob]
    IN  Commit(return(observe(StOn("observe", value.n, Key(""), value), value, FALSE)))

\* toggleObserving(value) called around the code of the scope
Toggle ==
  \E value \in BOOLEAN :
    Commit(toggleObserving(StOn("toggle", Root, Key(""), Undefined), value))

\* new Vue(options) called by the scope's code, for one of the options given
NewScope(templates) ==
  \E options \in templates :
    /\ Len(scopes) < MaxScopes
    /\ Commit(initState(StOf("newScope", Len(scopes) + 1), options))

\* vm.$mount() of a scope made by new Vue(options), called once by the
\* scope's code, before it destroys the scope
Mount ==
  \E k \in 1..Len(scopes) :
    /\ scopes[k].watcher = NoWatcher
    /\ ~scopes[k].isBeingDestroyed
    /\ Len(watchers) < MaxWatchers
    /\ Commit(mountComponent(StOf("mount", k), k))

\* vm.$destroy() of a scope made by new Vue(options), called by the scope's
\* code
Destroy ==
  \E k \in 1..Len(scopes) :
    Commit(destroy(StOf("destroy", k), k))

\* vm.$on(event, fn), vm.$once(event, fn), vm.$off(), vm.$off(event),
\* vm.$off(event, fn) and vm.$emit(event) called by the scope's code
OnEvent ==
  \E event \in Events, fn \in Handlers :
    /\ Len(events[event].cbs) < MaxHandlers
    /\ Commit(on(St("on", NoWatcher, event, Undefined), event, Fn(fn)))
OnceEvent ==
  \E event \in Events, fn \in Handlers :
    /\ Len(events[event].cbs) < MaxHandlers
    /\ Len(gOnce) < MaxOnce
    /\ Commit(once(St("once", NoWatcher, event, Undefined), event, Fn(fn)))
OffEvent ==
  \/ Commit(offAll(St("off", NoWatcher, "", Undefined)))
  \/ \E event \in Events, fn \in {NoFn} \cup {Fn(h) : h \in Handlers} :
       Commit(off(St("off", NoWatcher, event, Undefined), event, fn))
Emit ==
  \E event \in Events :
    Commit(emit(St("emit", NoWatcher, event, Undefined), event))

\* Vue.use(plugin) called by the scope's code, which catches what it throws
Use ==
  \E plugin \in Plugins :
    LET return(s) == [s EXCEPT !.g.ret = IF s.exc THEN Undefined ELSE s.ret]
        begin(s) == [s EXCEPT !.gUsed = @ \cup {plugin}]
    IN  /\ gInstalls[plugin] < MaxInstalls \/ indexOf(installedPlugins, plugin) > -1
        /\ Commit(return(use(begin(St("use", NoWatcher, plugin, Undefined)), plugin)))

\* Most callbacks waiting for a flush that the scope's code registers.
MaxCallbacks == 2
Callbacks == {"p"}

\* afterFlush(cb) called by code that is not a Watcher's evaluation
AfterFlush ==
  \E cb \in Callbacks :
    /\ Len(afterFlushCbs) < MaxCallbacks
    /\ Commit(afterFlush(St("afterFlush", NoWatcher, cb, Undefined), cb))

\* A scope with a render function and a watcher, both batched.
MenuBatch == {<<"render", "sum">>, <<"watch", "cond">>}
NextBatch ==
  \/ Construct(MenuBatch)
  \/ Write(({"flag"} \X Flags) \cup ({"a", "b"} \X Numbers))
  \/ Flush
SpecBatch == Init /\ [][NextBatch]_vars

\* A scope with watchers, batched and sync, on a conditional expression; a
\* may become NaN, and ro is assigned too.
MenuBranch == {<<"watch", "cond">>, <<"watchSync", "cond">>}
NextBranch ==
  \/ Construct(MenuBranch)
  \/ Write(({"flag"} \X Flags) \cup ({"a"} \X (Numbers \cup {NaN}))
             \cup ({"b", "ro"} \X Numbers))
  \/ Flush
SpecBranch == Init /\ [][NextBranch]_vars

\* A scope with a computed property on a conditional expression and watchers
\* that read it.
MenuDeps == {<<"computed", "cond">>, <<"watch", "viaC">>, <<"watchSync", "viaC">>}
NextDeps ==
  \/ Construct(MenuDeps)
  \/ Write(({"flag"} \X Flags) \cup ({"a", "b"} \X Numbers))
  \/ ReadComputed
  \/ Flush
SpecDeps == Init /\ [][NextDeps]_vars

\* A scope with a computed property, watchers that read it, evaluation
\* functions that throw and one that assigns; watchers are torn down.
MenuNested == {<<"computed", "cdef">>, <<"computed", "boom">>, <<"watch", "viaC">>,
               <<"watchSync", "viaC">>, <<"watch", "boom">>, <<"watchSync", "bump">>}
NextNested ==
  \/ Construct(MenuNested)
  \/ Write({"a", "b"} \X Numbers)
  \/ ReadComputed
  \/ Teardown
  \/ Flush
SpecNested == Init /\ [][NextNested]_vars

\* A scope with watchers, batched and sync, on an expression that assigns the
\* property it reads.
MenuAssign == {<<"watchSync", "bump">>, <<"watch", "bump">>, <<"watch", "sum">>}
NextAssign ==
  \/ Construct(MenuAssign)
  \/ Write({"a", "b"} \X Numbers)
  \/ Flush
SpecAssign == Init /\ [][NextAssign]_vars

\* A scope with a render function and watchers whose expressions assign what
\* they or one another read, so that Watchers are queued during a flush.
MenuSched == {<<"render", "sum">>, <<"watch", "flip">>, <<"watch", "copy">>,
              <<"watch", "anti">>, <<"watch", "bump">>}
NextSched ==
  \/ Construct(MenuSched)
  \/ Write({"a", "b"} \X Numbers)
  \/ Flush
SpecSched == Init /\ [][NextSched]_vars

\* A parent scope whose render function reads b, a child scope whose render
\* function reads a, and a watcher that assigns b when a changes.
MenuHooks == {<<"render", "cdef">>, <<"render", "geta">>, <<"watch", "copy">>}
NextHooks ==
  \/ ConstructUpTo(MenuHooks, MaxMounted)
  \/ Write({"a", "b"} \X Numbers)
  \/ Flush
SpecHooks == Init /\ [][NextHooks]_vars

\* A scope whose code registers callbacks with afterFlush, also from a
\* watcher's expression (during a flush), and a watcher queued during a flush.
MenuAfter == {<<"watch", "later">>, <<"watch", "bump">>, <<"render", "sum">>}
NextAfter ==
  \/ Construct(MenuAfter)
  \/ Write({"a", "b"} \X Numbers)
  \/ AfterFlush
  \/ Flush
SpecAfter == Init /\ [][NextAfter]_vars

\* A scope with watchers, one of them deep, on a + b and on the object in
\* box, which gets and loses a key.
MenuRun == {<<"watch", "sum">>, <<"watchDeep", "sum">>, <<"watch", "getbox">>}
NextRun ==
  \/ Construct(MenuRun)
  \/ Write({"a"} \X (Numbers \cup {NaN}))
  \/ SetKey({Boxed}, {Key(k) : k \in Keys}, {Num(1)})
  \/ DelKey({Boxed}, {Key(k) : k \in Keys})
  \/ Flush
SpecRun == Init /\ [][NextRun]_vars

\* A scope with a render function and watchers on a + b and flag ? a : b;
\* the callback of some watchers throws.
MenuThrow == {<<"watchBad", "sum">>, <<"watchBad", "cond">>, <<"watch", "sum">>,
              <<"render", "sum">>}
NextThrow ==
  \/ Construct(MenuThrow)
  \/ Write({"a", "b"} \X Numbers)
  \/ Flush
SpecThrow == Init /\ [][NextThrow]_vars

\* A scope with a computed property whose getter throws for one value of what
\* it reads, a watcher of an expression that reads the computed property, and
\* a watcher of what the computed property reads.
MenuFuse == {<<"computed", "fuse">>, <<"watch", "viaC">>, <<"watch", "geta">>}
NextFuse ==
  \/ ConstructUpTo(MenuFuse, MaxMounted)
  \/ Write({"a"} \X Numbers)
  \/ ReadComputed
  \/ Flush
SpecFuse == Init /\ [][NextFuse]_vars

\* A scope with watchers of a and of b and watchers whose expressions assign
\* b when a changes, so that Watchers are queued during a flush between
\* others that wait.
MenuOrder == {<<"watch", "echo">>, <<"watch", "copy">>, <<"watch", "cdef">>,
              <<"watch", "geta">>}
NextOrder ==
  \/ ConstructUpTo(MenuOrder, MaxMounted)
  \/ Write({"a"} \X Numbers)
  \/ Flush
SpecOrder == Init /\ [][NextOrder]_vars

\* A scope with watchers, sync and batched, on flag ? a : b and a sync
\* watcher whose expression assigns flag when a changes, so that Watchers
\* subscribe to and unsubscribe from a Dep while it notifies.
MenuNotify == {<<"watchSync", "gate">>, <<"watchSync", "cond">>, <<"watch", "cond">>}
NextNotify ==
  \/ Construct(MenuNotify)
  \/ Write(({"flag"} \X Flags) \cup ({"a", "b"} \X Numbers))
  \/ Flush
SpecNotify == Init /\ [][NextNotify]_vars

\* A scope whose code hands its objects to observe(), with tracking switched
\* on and off, and assigns them to box, with sync watchers of box.
Containers == {Obj(Boxed), Obj(Loose), Obj(List), Obj(Frozen), Obj(Vm)}
MenuWrap == {<<"watchSync", "getbox">>}
NextWrap ==
  \/ Construct(MenuWrap)
  \/ Observe(Containers)
  \/ Toggle
  \/ Write({"box"} \X {Obj(Boxed), Obj(Loose), Obj(List)})
SpecWrap == Init /\ [][NextWrap]_vars

\* A scope whose code adds, assigns and deletes keys with Vue.set and
\* Vue.delete: of the object in box, of an object vue has not seen, of
\* vm._data and of vm; with watchers of box and of box.k.
MenuSet == {<<"watch", "getk">>, <<"watchSync", "getbox">>}
NextSet ==
  \/ Construct(MenuSet)
  \/ SetKey({Boxed, Loose}, {Key("k")}, Numbers)
  \/ SetKey({Root, Vm}, {Key("k"), Key("a")}, {Num(2)})
  \/ DelKey({Boxed, Loose}, {Key("k")})
  \/ DelKey({Root, Vm}, {Key("k"), Key("a")})
  \/ Flush
SpecSet == Init /\ [][NextSet]_vars

\* A scope whose code assigns an array to box and sets and deletes its items
\* with Vue.set and Vue.delete, before and after; with watchers of box.
Indices == {Ix(i) : i \in 0..MaxLength - 1}
MenuList == {<<"watch", "getbox">>, <<"watchSync", "getbox">>}
NextList ==
  \/ Construct(MenuList)
  \/ Write({"box"} \X {Obj(List)})
  \/ SetKey({List}, Indices, {Num(2)})
  \/ DelKey({List}, Indices)
  \/ Flush
SpecList == Init /\ [][NextList]_vars

\* A scope with watchers of a, batched and sync, one of them with a callback
\* that stops it; watchers are stopped, also while they wait in the queue.
MenuUnwatch == {<<"watch", "geta">>, <<"watchSync", "geta">>, <<"watchOnce", "geta">>}
NextUnwatch ==
  \/ Construct(MenuUnwatch)
  \/ Write({"a"} \X Numbers)
  \/ Teardown
  \/ Flush
SpecUnwatch == Init /\ [][NextUnwatch]_vars

\* A scope with the computed property c () { return this.a } and watchers,
\* sync and batched, of this.a + this.c.
MenuStale == {<<"computed", "geta">>, <<"watchSync", "both">>, <<"watch", "both">>}
NextStale ==
  \/ ConstructUpTo(MenuStale, MaxMounted)
  \/ Write({"a"} \X Numbers)
  \/ ReadComputed
  \/ Flush
SpecStale == Init /\ [][NextStale]_vars

\* A scope whose watchers' expressions make scopes with new Vue(options),
\* with a data factory that reads a property of the scope, and destroy a
\* scope whose beforeDestroy handler reads one; factory and handler may throw.
MenuGuard == {<<"watch", "dismiss">>, <<"watch", "spawn">>, <<"watch", "spawnBad">>}
NextGuard ==
  \/ Construct(MenuGuard)
  \/ NewScope({Options("object", "reads"), Options("factory", "throws")})
  \/ Write({"a"} \X Numbers)
  \/ Flush
SpecGuard == Init /\ [][NextGuard]_vars

\* A scope whose code makes scopes with new Vue({ data: shared, render,
\* beforeDestroy }), mounts and destroys them, and adds keys to shared; a
\* beforeDestroy handler may call $destroy() of its scope, once.
NextDestroy ==
  \/ NewScope({Options("object", "none"), Options("object", "destroys")})
  \/ Mount
  \/ Destroy
  \/ SetKey({Loose}, {Key("n")}, {Num(1)})
SpecDestroy == Init /\ [][NextDestroy]_vars

\* A scope whose code makes scopes with new Vue({ data: shared, render }),
\* some with a placeholder node, mounts and destroys them, and assigns the
\* property their render functions read.
NextMount ==
  \/ NewScope({Options("object", "none"), Child(Options("object", "none"))})
  \/ Mount
  \/ Destroy
  \/ Write({"a"} \X Numbers)
  \/ Flush
SpecMount == Init /\ [][NextMount]_vars

\* A scope whose code registers handlers of an event with $on and $once,
\* removes them with $off and emits the event; a handler may emit the
\* event again, once.
NextEvents ==
  \/ OnEvent
  \/ OnceEvent
  \/ OffEvent
  \/ Emit
SpecEvents == Init /\ [][NextEvents]_vars

\* Code that calls Vue.use() with plugins that are objects and functions;
\* an install function may throw, or call Vue.use() with its plugin, once.
NextUse ==
  \/ Use
SpecUse == Init /\ [][NextUse]_vars

----------------------------------------------------------------------------
(* Properties                                                              *)

\* What a Watcher's expression yields on the data as they are.
ExpectOfData(fn) ==
  CASE fn = "sum" -> Plus(data.a, data.b)
    [] fn = "cond" -> IF Truthy(data.flag) THEN data.a ELSE data.b
    [] fn = "cdef" -> data.b
    [] fn = "boom" -> Undefined
    [] fn = "bump" -> data.b
Expect(fn) ==
  IF fn = "viaC"
    THEN IF computedWatchers = NoWatcher THEN NaN
         ELSE LET c == ExpectOfData(watchers[computedWatchers].getter)
              IN  Plus(c, c)
    ELSE ExpectOfData(fn)

Batched(w) == ~watchers[w].lazy /\ ~watchers[w].sync
CallsOf(w) == SelectSeq(g.cbs, LAMBDA c : c.w = w)

\* C1: a batched Watcher whose last evaluation read a property is, once that
\* property has been set to a new value, in the queue exactly once (and has
\* not run); a flush calls run() exactly once on each Watcher that was pending
\* when it began, and on no other.
C1_BatchedOnce ==
  /\ g.op.name = "write" /\ g.notified # <<>> =>
       \A w \in 1..Len(watchers) :
         Batched(w) /\ watchers[w].active /\ DepOf[g.op.p] \in g.pre.seen[w]
           => Count(queue, w) = 1 /\ Count(g.runs, w) = 0
  /\ g.op.name = "flush" =>
       /\ \A w \in Range(g.pre.queue) : Count(g.runs, w) = 1
       /\ Len(g.runs) = Len(g.pre.queue)

\* a flush in which the Watcher of a + b ran once, and went from 1 + 1 to
\* 2 + 2: both properties were set since it last ran
C1_Witness ==
  /\ g.op.name = "flush"
  /\ \E w \in 1..Len(watchers) :
       /\ watchers[w].getter = "sum"
       /\ Count(g.runs, w) = 1
       /\ CallsOf(w) = <<[w |-> w, value |-> Num(4), oldValue |-> Num(2)]>>

\* C5: ids grow with construction order, and a flush runs the Watchers in
\* strictly ascending id order, so one constructed earlier runs before one
\* constructed later.
C5_FlushOrder ==
  /\ \A i, j \in 1..Len(watchers) : i < j => watchers[i].id < watchers[j].id
  /\ g.op.name = "flush" =>
       \A i, j \in 1..Len(g.runs) :
         i < j => /\ watchers[g.runs[i]].id < watchers[g.runs[j]].id
                  /\ g.runs[i] < g.runs[j]

\* a flush whose queue held the second Watcher before the first
C5_Witness ==
  /\ g.op.name = "flush"
  /\ g.pre.queue = <<2, 1>>
  /\ g.runs = <<1, 2>>

\* C8: constructing a Watcher calls no callback; a flush calls the callback
\* of a pending Watcher exactly once, with its new and its previous value,
\* when its expression's value has changed, and not at all when it has not.
C8_CallbackOnce ==
  /\ g.op.name = "new" => g.cbs = <<>>
  /\ g.op.name = "flush" =>
       \A w \in Range(g.pre.queue) :
         LET new == Expect(watchers[w].getter)
             old == g.pre.value[w]
         IN  /\ watchers[w].value = new
             /\ CallsOf(w) = IF new = old THEN <<>>
                             ELSE <<[w |-> w, value |-> new, oldValue |-> old]>>

\* the watcher of flag ? a : b, made while a was 1, flushed after a = 2
C8_Witness ==
  /\ g.op.name = "flush"
  /\ Len(watchers) >= 1
  /\ watchers[1].getter = "cond"
  /\ watchers[1].user
  /\ g.pre.seen[1] = {DepOf.flag, DepOf.a}
  /\ data.a = Num(2)
  /\ g.cbs = <<[w |-> 1, value |-> Num(2), oldValue |-> Num(1)]>>

\* C2: a Watcher of flag ? a : b whose last evaluation took the false branch
\* (it read flag and b) is not updated, run or queued when a is set to a new
\* value, and is updated exactly once when b is.
C2_BranchPruned ==
  g.op.name = "write" /\ g.notified # <<>> =>
    \A w \in 1..Len(watchers) :
      /\ watchers[w].getter = "cond"
      /\ watchers[w].active
      /\ g.pre.seen[w] = {DepOf.flag, DepOf.b}
      => /\ g.op.p = "a" => /\ Count(g.updates, w) = 0
                            /\ Count(g.runs, w) = 0
                            /\ Count(queue, w) = Count(g.pre.queue, w)
         /\ g.op.p = "b" => Count(g.updates, w) = 1

\* a was set to a new value; a Watcher that had read a in an earlier
\* evaluation and then took the false branch was left alone
C2_Witness ==
  /\ g.op.name = "write"
  /\ g.op.p = "a"
  /\ g.notified = <<DepOf.a>>
  /\ \E w \in 1..Len(watchers) :
       /\ watchers[w].getter = "cond"
       /\ watchers[w].active
       /\ DepOf.a \in gEver[w]
       /\ g.pre.seen[w] = {DepOf.flag, DepOf.b}
       /\ Count(g.updates, w) = 0

\* C7 as stated: an assignment of the value the property holds, NaN over NaN
\* included, changes no data and notifies nobody; an assignment of any other
\* value stores it and notifies the property's Dep exactly once.
C7_SetterEquality ==
  g.op.name = "write" =>
    LET p == g.op.p
    IN  IF g.op.v = g.pre.val
          THEN data[p] = g.pre.val /\ g.notified = <<>> /\ g.updates = <<>>
          ELSE data[p] = g.op.v /\ g.notified = <<DepOf[p]>>

\* C7, amended: that holds of a property that had no getter, or had a
\* setter, before it was made reactive; an assignment to one that had a
\* getter and no setter changes no data and notifies nobody, whatever the
\* value.
C7_SetterEqualityWritable ==
  g.op.name = "write" =>
    LET p == g.op.p
    IN  IF g.op.v = g.pre.val \/ (propertyGet(p) /\ ~propertySet(p))
          THEN data[p] = g.pre.val /\ g.notified = <<>> /\ g.updates = <<>>
          ELSE data[p] = g.op.v /\ g.notified = <<DepOf[p]>>

\* NaN assigned to a property that holds NaN and has a subscriber
C7_Witness ==
  /\ g.op.name = "write"
  /\ g.op.v = NaN
  /\ g.pre.val = NaN
  /\ subs[DepOf[g.op.p]] # <<>>
  /\ g.notified = <<>>

\* C3: as every evaluation (get, with its cleanupDeps) returns, the deps and
\* depIds of its Watcher hold exactly the Deps whose depend() was called
\* with that Watcher as Dep.target during the evaluation, each once, and
\* newDeps and newDepIds are empty.
C3_DepsExact ==
  \A i \in 1..Len(g.evals) :
    LET e == g.evals[i]
    IN  /\ Range(e.deps) = e.seen
        /\ e.depIds = e.seen
        /\ NoDup(e.deps)
        /\ e.newDeps = <<>>
        /\ e.newDepIds = {}

\* the Watchers of this.c + this.c constructed after the computed property
ReadersOfC ==
  {o \in 1..Len(watchers) :
     /\ watchers[o].getter = "viaC"
     /\ computedWatchers # NoWatcher
     /\ computedWatchers < o}

\* C4: with O a Watcher whose evaluation reads the computed property c and
\* C the lazy Watcher of c: when O has been evaluated it is a subscriber,
\* once, of every Dep that C's evaluation read; setting a property that C's
\* evaluation read calls C.update() once and leaves C dirty unless O has
\* recomputed it already, and O is in the queue once and has not run (a
\* sync O has run once instead); the flush runs O once, and after it C is
\* clean and C and O hold the values of their expressions.
C4_ComputedInvalidation ==
  \A o \in ReadersOfC :
    LET c == computedWatchers
        x == DepOf[g.op.p]
    IN  /\ (\E i \in 1..Len(g.evals) : g.evals[i].w = o)
             => /\ gSeen[c] # {}
                /\ \A d \in gSeen[c] : Count(subs[d], o) = 1
        /\ g.op.name = "write" /\ g.notified # <<>> /\ x \in g.pre.seen[c]
             => /\ Count(g.updates, c) = 1
                /\ Count(g.updates, o) <= 1
                /\ (\A i \in 1..Len(g.evals) : g.evals[i].w # c) => watchers[c].dirty
                /\ Batched(o) => Count(queue, o) = 1 /\ Count(g.runs, o) = 0
                /\ watchers[o].sync =>
                     /\ Count(g.runs, o) = 1
                     /\ watchers[o].value = Expect("viaC")
        /\ g.op.name = "flush" /\ o \in Range(g.pre.queue)
             => /\ Count(g.runs, o) = 1
                /\ ~watchers[c].dirty
                /\ watchers[c].value = Expect(watchers[c].getter)
                /\ watchers[o].value = Expect("viaC")

\* a flush that ran O once; the run recomputed C, and O went from 1 + 1 to
\* 2 + 2
C4_Witness ==
  /\ g.op.name = "flush"
  /\ \E o \in ReadersOfC :
       /\ Count(g.runs, o) = 1
       /\ \E i \in 1..Len(g.evals) : g.evals[i].w = computedWatchers
       /\ CallsOf(o) = <<[w |-> o, value |-> Num(4), oldValue |-> Num(2)]>>

\* C6: teardown() of a Watcher that is not active (it has been torn down)
\* throws nothing and leaves every Dep's subs, vm._watchers and every
\* Watcher, its active flag included, as they were.
C6_TeardownIdempotent ==
  [][g'.op.name = "teardown" /\ ~watchers[g'.op.w].active =>
       /\ subs' = subs
       /\ vmWatchers' = vmWatchers
       /\ watchers' = watchers
       /\ ~g'.thrown]_vars

\* a second teardown() of a Watcher that has deps
C6_Witness ==
  /\ g.op.name = "teardown"
  /\ ~g.pre.active[g.op.w]
  /\ watchers[g.op.w].deps # <<>>

\* C9: no Dep's subs holds a Watcher twice.
C9_SubsNoDup == \A d \in Deps : NoDup(subs[d])

\* after a teardown, a Watcher was evaluated again by a write or a flush; its
\* Dep.depend() ran twice in one pass, and it is in that Dep's subs once
C9_Witness ==
  /\ g.op.name \in {"write", "flush"}
  /\ \E w \in 1..Len(watchers) : ~watchers[w].active
  /\ \E i, j \in 1..Len(g.reads) :
       /\ i < j
       /\ g.reads[i].dep = g.reads[j].dep
       /\ g.reads[i].target = g.reads[j].target
       /\ Count(subs[g.reads[i].dep], g.reads[i].target) = 1

\* C10: no evaluation is in progress between entry points; every get()
\* makes its Watcher Dep.target on top of the stack it found and, as it
\* returns or throws, leaves targetStack and Dep.target as it found them;
\* every Dep.depend() is made for the Watcher of the innermost get() running.
C10_TargetPaired ==
  /\ targetStack = <<>>
  /\ target = NoTarget
  /\ \A i \in 1..Len(g.evals) :
       LET e == g.evals[i]
       IN  /\ e.stackIn = Append(e.stackBefore, e.w)
           /\ e.targetIn = e.w
           /\ e.stackAfter = e.stackBefore
           /\ e.targetAfter = e.targetBefore
           /\ e.targetBefore = IF e.stackBefore = <<>> THEN NoTarget
                                ELSE e.stackBefore[Len(e.stackBefore)]
  /\ \A i \in 1..Len(g.reads) : g.reads[i].target = g.reads[i].frame

\* the evaluation of a computed property, nested in a Watcher's, read a
\* property and threw
C10_Witness ==
  \E i, j \in 1..Len(g.evals) :
    /\ i < j
    /\ g.evals[i].threw
    /\ g.evals[i].stackBefore = <<g.evals[j].w>>
    /\ g.evals[i].w # g.evals[j].w
    /\ \E k \in 1..Len(g.reads) : g.reads[k].target = g.evals[i].w

\* The Watchers of queue q that wait for their run: all of them when no flush
\* is in progress, and those behind the one at the cursor during a flush.
PendingIn(q, fl, idx) == SubSeq(q, IF fl THEN idx + 2 ELSE 1, Len(q))
IdsOf(q) == [i \in 1..Len(q) |-> watchers[q[i]].id]

\* C11: the Watchers waiting in the queue have pairwise distinct ids, and
\* their ids are exactly the ids marked pending, between entry points and
\* after every call of queueWatcher (also those made during a flush); a call
\* for a Watcher whose id is pending leaves the queue as it was.
C11_NoDuplicatePending ==
  /\ NoDup(IdsOf(PendingIn(queue, flushing, index)))
  /\ Range(IdsOf(PendingIn(queue, flushing, index))) = has
  /\ \A k \in 1..Len(g.queued) :
       LET c == g.queued[k]
           waits == IdsOf(PendingIn(c.queue, c.flushing, c.index))
       IN  /\ NoDup(waits)
           /\ Range(waits) = c.has
           /\ watchers[c.w].id \in c.has
           /\ c.pending => c.queue = c.queueBefore
           /\ ~c.pending => Len(c.queue) = Len(c.queueBefore) + 1

\* a flush during which queueWatcher was called for a Watcher that was
\* waiting, and for one that had run in this flush and was queued again
C11_Witness ==
  /\ g.op.name = "flush"
  /\ \E k \in 1..Len(g.queued) : g.queued[k].flushing /\ g.queued[k].pending
  /\ \E k \in 1..Len(g.queued) :
       /\ g.queued[k].flushing
       /\ ~g.queued[k].pending
       /\ Count(SubSeq(g.queued[k].queue, 1, g.queued[k].index + 1), g.queued[k].w) >= 1

\* C12: at most one flush is handed to the next tick and not started; while
\* no flush is in progress one is waiting exactly when the queue is not
\* empty, and of the queueWatcher calls made then the first that queues hands
\* a flush to the next tick while the later ones only append to the queue.
C12_OneFlushScheduled ==
  /\ scheduled \in {0, 1}
  /\ ~flushing => (scheduled = 1 <=> queue # <<>>)
  /\ \A k \in 1..Len(g.queued) :
       LET c == g.queued[k]
       IN  ~c.flushing =>
             /\ c.scheduled = 1
             /\ c.scheduled = c.scheduledBefore + 1 <=> c.queueBefore = <<>>
             /\ ~c.pending => c.queue = Append(c.queueBefore, c.w)

\* a property write that queued two Watchers: the first call handed a flush
\* to the next tick, the second found it waiting and appended
C12_Witness ==
  /\ g.op.name = "write"
  /\ Len(g.queued) = 2
  /\ ~g.queued[1].pending /\ g.queued[1].scheduledBefore = 0
  /\ ~g.queued[2].pending /\ g.queued[2].scheduledBefore = 1
  /\ Len(queue) = 2
  /\ scheduled = 1

\* The calls of queueWatcher that queued a Watcher during the flush.
QueuedInFlush == {k \in 1..Len(g.queued) : g.queued[k].flushing /\ ~g.queued[k].pending}
\* run() was called on the Watcher of call k after that call
RunAfter(k) ==
  \E j \in 1..Len(g.runs) : j > g.queued[k].runs /\ g.runs[j] = g.queued[k].w
\* the Watcher of call k was dropped from the flush after that call
DroppedAfter(k) ==
  \E j \in 1..Len(g.dropped) :
    g.dropped[j].w = g.queued[k].w /\ g.dropped[j].runs >= g.queued[k].runs

\* C13 as stated: a Watcher queued during a flush is run before that flush
\* ends, and the flush leaves nothing for the next tick.
C13_RunInSameFlush ==
  g.op.name = "flush" =>
    /\ \A k \in QueuedInFlush : RunAfter(k)
    /\ queue = <<>> /\ has = {} /\ scheduled = 0

\* C13 amended: a Watcher queued during a flush is, before that flush ends,
\* run, or reported and dropped when it has had its MaxUpdateCount runs in
\* this flush; the flush leaves nothing for the next tick.
C13_RunOrDroppedInSameFlush ==
  g.op.name = "flush" =>
    /\ \A k \in QueuedInFlush :
         \/ RunAfter(k)
         \/ /\ DroppedAfter(k)
            /\ Count(g.runs, g.queued[k].w) = MaxUpdateCount
            /\ <<g.queued[k].w, "circular">> \in Range(g.errors)
    /\ queue = <<>> /\ has = {} /\ scheduled = 0

\* a flush that queued and then ran a Watcher whose id was ahead of the
\* cursor, and one whose id the cursor had passed
C13_Witness ==
  /\ g.op.name = "flush"
  /\ \E k \in QueuedInFlush :
       /\ watchers[g.queued[k].w].id > watchers[g.queued[k].queue[g.queued[k].index + 1]].id
       /\ RunAfter(k)
  /\ \E k \in QueuedInFlush :
       /\ watchers[g.queued[k].w].id < watchers[g.queued[k].queue[g.queued[k].index + 1]].id
       /\ RunAfter(k)

\* C14: in a flush no Watcher is run more than MaxUpdateCount times; a
\* Watcher is dropped only after that many runs, with an error reported, and
\* is not run again in that flush; a Watcher whose evaluation assigns the
\* property it reads (it queues itself on every run) gets exactly that many
\* runs and is dropped; the flush ends with the scheduler reset.
C14_FlushTerminates ==
  g.op.name = "flush" =>
    /\ \A w \in 1..Len(watchers) : Count(g.runs, w) <= MaxUpdateCount
    /\ \A k \in 1..Len(g.dropped) :
         LET d == g.dropped[k]
         IN  /\ Count(SubSeq(g.runs, 1, d.runs), d.w) = MaxUpdateCount
             /\ Count(g.runs, d.w) = MaxUpdateCount
             /\ Count(g.errors, <<d.w, "circular">>)
                  = Cardinality({j \in 1..Len(g.dropped) : g.dropped[j].w = d.w})
    /\ \A w \in Range(g.runs) :
         watchers[w].getter = "flip" =>
           /\ Count(g.runs, w) = MaxUpdateCount
           /\ \E k \in 1..Len(g.dropped) : g.dropped[k].w = w
    /\ queue = <<>> /\ has = {} /\ circular = <<>> /\ index = 0
    /\ ~flushing /\ ~waiting

\* a flush that dropped a Watcher which another Watcher's runs had queued
\* again and again (b = a and a = 3 - b undo one another), and one that
\* had queued itself
C14_Witness ==
  /\ g.op.name = "flush"
  /\ \E k \in 1..Len(g.dropped) :
       /\ watchers[g.dropped[k].w].getter \in {"copy", "anti"}
       /\ \A j \in 1..Len(g.queued) :
            g.queued[j].w = g.dropped[k].w /\ ~g.queued[j].pending
              => g.runs[g.queued[j].runs] # g.dropped[k].w

\* The updated hooks called, and the render Watchers run, in order.
Updated == SelectSeq(g.hooks, LAMBDA h : h.hook = "updated")
RenderRuns == SelectSeq(g.runs, LAMBDA w : watchers[w].isRenderWatcher)
\* Every updated hook of a flush is called after all of its run() calls, when
\* every Watcher that was pending has run, and the hooks are called in the
\* reverse of the order in which the render Watchers ran.
UpdatedAfterMainPass ==
  /\ \A k \in 1..Len(Updated) : Updated[k].runs = Len(g.runs)
  /\ Updated # <<>> => \A w \in Range(g.pre.queue) : Count(g.runs, w) >= 1
  /\ Len(Updated) = Len(RenderRuns)
  /\ \A k \in 1..Len(Updated) : Updated[k].vm = RenderRuns[Len(RenderRuns) + 1 - k]

\* C15 as stated: the updated hooks are called after the main pass in reverse
\* registration order, and the hook of a scope constructed inside another
\* (its render Watcher is the later one) is called before the hook of the
\* enclosing scope.
C15_ChildHookFirst ==
  g.op.name = "flush" =>
    /\ UpdatedAfterMainPass
    /\ \A i, j \in 1..Len(Updated) :
         Updated[i].vm < Updated[j].vm => j < i

\* C15 amended: the updated hooks are called after the main pass in reverse
\* registration order; when the render Watchers of both scopes were pending
\* as the flush began, every updated hook of the inner scope is followed by
\* one of the enclosing scope.
C15_ChildHookFirstIfPending ==
  g.op.name = "flush" =>
    /\ UpdatedAfterMainPass
    /\ \A p, c \in Range(g.pre.queue) :
         /\ p < c
         /\ watchers[p].isRenderWatcher
         /\ watchers[c].isRenderWatcher
         => \A j \in 1..Len(Updated) :
              Updated[j].vm = c => \E i \in j + 1..Len(Updated) : Updated[i].vm = p

\* a flush that began with the render Watchers of the outer and of the inner
\* scope pending: the inner scope's hook was called first
C15_Witness ==
  /\ g.op.name = "flush"
  /\ {1, 2} \subseteq Range(g.pre.queue)
  /\ watchers[1].isRenderWatcher /\ watchers[2].isRenderWatcher
  /\ Updated = <<[vm |-> 2, hook |-> "updated", runs |-> Len(g.runs)],
                 [vm |-> 1, hook |-> "updated", runs |-> Len(g.runs)]>>

\* C16: a callback registered with afterFlush is called in no entry point
\* but a flush, and there only when the flush has completed: after every
\* run() and hook of the flush, with every Watcher that was pending run, the
\* queue empty and the scheduler reset; the callbacks called are those that
\* waited when the flush began and those registered during it, and none
\* stays behind.
C16_AfterFlush ==
  /\ g.op.name # "flush" => g.after = <<>>
  /\ g.op.name = "flush" =>
       /\ \A k \in 1..Len(g.after) :
            /\ g.after[k].runs = Len(g.runs)
            /\ g.after[k].hooks = Len(g.hooks)
            /\ g.after[k].queue = <<>>
            /\ ~g.after[k].flushing
       /\ \A w \in Range(g.pre.queue) : Count(g.runs, w) >= 1
       /\ [k \in 1..Len(g.after) |-> g.after[k].cb] = g.pre.afterFlushCbs \o g.registered
       /\ afterFlushCbs = <<>>

\* a flush that ran two Watchers, one of them queued during the flush, and
\* then called a callback that had waited for it and one registered during it
C16_Witness ==
  /\ g.op.name = "flush"
  /\ g.pre.afterFlushCbs # <<>>
  /\ g.registered # <<>>
  /\ Len(g.runs) >= 2
  /\ Len(g.runs) > Len(g.pre.queue)
  /\ Len(g.after) >= 2

\* C17: a call of update() on a lazy Watcher sets its dirty flag and does
\* nothing else: no evaluation, run() or callback, no queueWatcher, queue and
\* all other fields of all Watchers as before; on a sync Watcher it calls
\* run() on it, which has returned (its evaluation is complete) when update()
\* returns, and does not queue it; on any other Watcher it calls
\* queueWatcher for it and nothing else: no evaluation, run() or callback,
\* all Watchers as before.
C17_UpdateDispatch ==
  \A k \in 1..Len(g.returned) :
    LET u == g.returned[k]
        this == watchers[u.w]
    IN  /\ this.lazy =>
             /\ u.evals = 0 /\ u.runs = <<>> /\ u.cbs = 0 /\ u.queued = <<>>
             /\ u.onlyDirty /\ u.queueSame
        /\ ~this.lazy /\ this.sync =>
             /\ u.runs # <<>> /\ u.runs[1] = u.w
             /\ this.active => u.evals >= 1
             /\ u.frames = 0
             /\ \A j \in 1..Len(u.queued) : u.queued[j].w # u.w
        /\ ~this.lazy /\ ~this.sync =>
             /\ u.evals = 0 /\ u.runs = <<>> /\ u.cbs = 0
             /\ Len(u.queued) = 1 /\ u.queued[1].w = u.w
             /\ u.watchersSame

\* a property write after which update() was called on the computed
\* property's Watcher, which became dirty, and on a sync Watcher reading the
\* computed property, which evaluated and called its callback at once
C17_Witness ==
  /\ g.op.name = "write"
  /\ \E k \in 1..Len(g.returned) :
       watchers[g.returned[k].w].lazy /\ watchers[g.returned[k].w].dirty = FALSE
  /\ \E k \in 1..Len(g.returned) :
       watchers[g.returned[k].w].sync /\ g.returned[k].cbs = 1

\* C18: a call of run() on an active Watcher evaluates it once and calls the
\* callback, once and with (value, previous value), exactly when the value is
\* not identical (===) to the previous one, or is an object, or the Watcher
\* is deep; the Watcher then holds the new value.  Otherwise the callback is
\* not called and the Watcher holds the value it held.  On a Watcher that is
\* not active run() evaluates nothing and calls nothing.
C18_RunCallsBack ==
  \A k \in 1..Len(g.ran) :
    LET r == g.ran[k]
        value == r.evals[1].value
    IN  /\ r.active =>
             /\ Len(r.evals) = 1
             /\ IF \/ ~StrictEq(value, r.old)
                   \/ isObject(value)
                   \/ watchers[r.w].deep
                  THEN /\ r.cbs = <<[w |-> r.w, value |-> value, oldValue |-> r.old]>>
                       /\ r.after = value
                  ELSE /\ r.cbs = <<>>
                       /\ r.after = r.old
        /\ ~r.active => r.evals = <<>> /\ r.cbs = <<>> /\ r.after = r.old

\* a flush that ran a deep Watcher whose value was the number it had been,
\* or a Watcher whose value was the object it had been: the callback was
\* called with twice the same value
C18_Witness ==
  /\ g.op.name = "flush"
  /\ \E k \in 1..Len(g.ran) :
       /\ g.ran[k].active
       /\ StrictEq(g.ran[k].evals[1].value, g.ran[k].old)
       /\ watchers[g.ran[k].w].deep \/ isObject(g.ran[k].old)
       /\ Len(g.ran[k].cbs) = 1
  /\ \E k \in 1..Len(g.ran) :
       /\ g.ran[k].active
       /\ StrictEq(g.ran[k].evals[1].value, g.ran[k].old)
       /\ g.ran[k].cbs = <<>>

\* The callback calls of the entry point that threw.
ThrowingCalls == {k \in 1..Len(g.cbs) : watchers[g.cbs[k].w].cb = "throws"}

\* C19: in a flush every callback of a user Watcher that throws is reported
\* to handleError, once per call, and no exception leaves the flush; the
\* Watcher holds the value it passed to the callback; every Watcher that was
\* pending when the flush began is run once, the ones behind the thrower
\* included, and holds the value of its expression.
C19_CallbackErrorIsolated ==
  g.op.name = "flush" =>
    /\ ~g.thrown
    /\ \A k \in ThrowingCalls :
         /\ Count(g.errors, <<g.cbs[k].w, "callback">>)
              = Cardinality({j \in ThrowingCalls : g.cbs[j].w = g.cbs[k].w})
         /\ watchers[g.cbs[k].w].value = g.cbs[k].value
         /\ g.cbs[k].value # g.cbs[k].oldValue
    /\ \A w \in Range(g.pre.queue) :
         /\ Count(g.runs, w) = 1
         /\ watchers[w].value = Expect(watchers[w].getter)
    /\ g.runs = SortById(watchers, g.pre.queue)
    /\ queue = <<>> /\ ~flushing

\* a flush in which the callback of the first Watcher threw and the second
\* Watcher ran after it and had its callback called
C19_Witness ==
  /\ g.op.name = "flush"
  /\ g.runs = <<1, 2>>
  /\ ThrowingCalls = {1}
  /\ g.cbs[1].w = 1
  /\ Len(g.cbs) = 2
  /\ g.errors = <<<<1, "callback">>>>

\* The evaluations of the computed property's Watcher in which its getter threw.
ComputedThrew == {k \in 1..Len(g.evals) : watchers[g.evals[k].w].lazy /\ g.evals[k].threw}
\* The evaluation of the Watcher that was Dep.target when evaluation k began
\* (the one whose expression read the computed property), as it ended.
ReaderEval(k) ==
  g.evals[CHOOSE j \in k + 1..Len(g.evals) :
            /\ g.evals[j].w = g.evals[k].targetBefore
            /\ \A i \in k + 1..j - 1 : g.evals[i].w # g.evals[k].targetBefore]

\* C20 as stated: when the computed property's getter throws, the error is
\* handed to handleError for the computed Watcher, the code or the expression
\* that read the property sees no exception, and a flush goes on.
C20_ComputedErrorCaught ==
  \A k \in ComputedThrew :
    /\ <<g.evals[k].w, "getter">> \in Range(g.errors)
    /\ g.evals[k].targetBefore = NoTarget => ~g.thrown
    /\ g.evals[k].targetBefore # NoTarget => ~ReaderEval(k).threw
    /\ g.op.name = "flush" => ~g.thrown /\ queue = <<>>

\* C20 amended: when the computed property's getter throws, the exception
\* leaves the computed Watcher's evaluation unreported (the Watcher stays
\* dirty, the evaluation context is restored) and reaches whoever read the
\* property: code outside any evaluation gets the exception; the expression
\* of a user Watcher is ended by it, that Watcher's evaluation hands it to
\* handleError, and a flush goes on to run every Watcher that was pending.
C20_ComputedErrorPropagates ==
  \A k \in ComputedThrew :
    /\ <<g.evals[k].w, "getter">> \notin Range(g.errors)
    /\ watchers[g.evals[k].w].dirty
    /\ g.evals[k].stackAfter = g.evals[k].stackBefore
    /\ g.evals[k].targetAfter = g.evals[k].targetBefore
    /\ g.evals[k].targetBefore = NoTarget => g.thrown
    /\ g.evals[k].targetBefore # NoTarget =>
         /\ ReaderEval(k).threw
         /\ watchers[g.evals[k].targetBefore].user =>
              /\ <<g.evals[k].targetBefore, "getter">> \in Range(g.errors)
              /\ ~g.thrown
              /\ g.op.name = "flush" =>
                   /\ \A w \in Range(g.pre.queue) : Count(g.runs, w) >= 1
                   /\ queue = <<>>

\* a flush that ran a watcher of c + c whose c threw, and then another
\* Watcher
C20_Witness ==
  /\ g.op.name = "flush"
  /\ \E k \in ComputedThrew :
       /\ g.evals[k].targetBefore # NoTarget
       /\ ReaderEval(k).threw
       /\ <<g.evals[k].targetBefore, "getter">> \in Range(g.errors)
       /\ \E i, j \in 1..Len(g.runs) :
            i < j /\ g.runs[i] = g.evals[k].targetBefore /\ g.runs[j] # g.runs[i]

\* The evaluations recorded in which the evaluation function of w threw.
ThrewIn(w) == {k \in 1..Len(g.evals) : g.evals[k].w = w /\ g.evals[k].threw}

\* C21: when the evaluation function of a Watcher throws, get() of a Watcher
\* that is not user-defined throws the exception on to its caller and
\* reports nothing, and get() of a user-defined Watcher reports it with
\* handleError (once for each evaluation that threw), returns undefined and
\* throws nothing.
C21_EvaluationError ==
  \A w \in 1..Len(watchers) :
    /\ \A k \in ThrewIn(w) :
         IF watchers[w].user
           THEN ~g.evals[k].propagated /\ g.evals[k].value = Undefined
           ELSE g.evals[k].propagated
    /\ Count(g.errors, <<w, "getter">>) =
         IF watchers[w].user THEN Cardinality(ThrewIn(w)) ELSE 0

\* an entry point in which the evaluation function of a computed Watcher
\* threw into the evaluation of a user Watcher that read the property
C21_Witness ==
  \E w, c \in 1..Len(watchers) :
    /\ watchers[w].user /\ ~watchers[c].user
    /\ ThrewIn(w) # {} /\ ThrewIn(c) # {}
    /\ <<w, "getter">> \in Range(g.errors)
    /\ ~g.thrown

\* C25: a Watcher whose teardown() has returned (it is not active) is in no
\* Dep's subs, in this and every later state, and not in vm._watchers unless
\* the scope was being destroyed.
C25_TornDownStaysOut ==
  \A w \in 1..Len(watchers) :
    ~watchers[w].active =>
      /\ \A d \in DOMAIN subs : w \notin Range(subs[d])
      /\ ~isBeingDestroyed => w \notin Range(vmWatchers)

\* ids ascending
Ascending(ids) == \A i, j \in 1..Len(ids) : i < j => ids[i] < ids[j]
\* The calls of queueWatcher that queued, during a flush, a Watcher whose id
\* is greater than the id of the Watcher being run.
QueuedAhead ==
  {k \in QueuedInFlush :
     watchers[g.queued[k].w].id > watchers[g.queued[k].queue[g.queued[k].index + 1]].id}
\* After call k every Watcher waiting before the queued one has a smaller id
\* and every Watcher waiting behind it a larger one.
PlacedById(k) ==
  LET c == g.queued[k]
      waits == PendingIn(c.queue, TRUE, c.index)
  IN  \A i, j \in 1..Len(waits) :
        i < j =>
          /\ waits[j] = c.w => watchers[waits[i]].id < watchers[c.w].id
          /\ waits[i] = c.w => watchers[waits[j]].id > watchers[c.w].id

\* C26 as stated: a Watcher queued during a flush with an id greater than
\* that of the Watcher being run is put behind the waiting Watchers of
\* smaller id and before those of larger id, and the waiting part of the
\* queue is ascending by id.
C26_SortedInsert ==
  \A k \in QueuedAhead :
    /\ PlacedById(k)
    /\ Ascending(IdsOf(PendingIn(g.queued[k].queue, TRUE, g.queued[k].index)))

\* C26 amended: the same, for the calls that found the waiting part of the
\* queue ascending by id.
C26_SortedInsertIntoSorted ==
  \A k \in QueuedAhead :
    Ascending(IdsOf(PendingIn(g.queued[k].queueBefore, TRUE, g.queued[k].index))) =>
      /\ PlacedById(k)
      /\ Ascending(IdsOf(PendingIn(g.queued[k].queue, TRUE, g.queued[k].index)))

\* a flush in which a Watcher was queued between the one being run and a
\* waiting one of larger id, and was run before it
C26_Witness ==
  /\ g.op.name = "flush"
  /\ \E k \in QueuedAhead :
       LET c == g.queued[k]
           waits == PendingIn(c.queue, TRUE, c.index)
       IN  /\ Len(waits) >= 2
           /\ waits[1] = c.w
           /\ Ascending(IdsOf(PendingIn(c.queueBefore, TRUE, c.index)))
           /\ \E i, j \in 1..Len(g.runs) :
                i < j /\ i > c.runs /\ g.runs[i] = c.w /\ g.runs[j] = waits[2]

\* C27: every notify() that returned called update() on the Watchers that
\* were in subs when it began, once each and in that order, whatever was
\* added to or removed from subs while it ran; a notify() in progress or
\* ended by an exception has called a prefix of them.
C27_NotifySnapshot ==
  \A k \in 1..Len(g.passes) :
    LET p == g.passes[k]
    IN  /\ NoDup(p.subs)
        /\ Len(p.called) <= Len(p.subs)
        /\ p.called = SubSeq(p.subs, 1, Len(p.called))
        /\ p.returned /\ ~p.threw => p.called = p.subs

\* a notify() during which one Watcher of the snapshot unsubscribed from the
\* Dep and was called all the same
C27_Witness ==
  \E k \in 1..Len(g.passes) :
    LET p == g.passes[k]
    IN  /\ p.returned
        /\ Len(p.subs) >= 2
        /\ \E w \in Range(p.subs) : w \notin Range(p.subsAfter) /\ w \in Range(p.called)

\* C22: an object that has an Observer keeps it whatever is called: no entry
\* point makes an Observer for it or gives one of its keys an accessor; and
\* observe() of such an object returns that Observer, makes no Dep and
\* changes no object, with shouldObserve true or false.
C22_ObserveIdempotent ==
  /\ \A n \in Objects :
       g.pre.heap[n].ob # NoOb =>
         /\ heap[n].ob = g.pre.heap[n].ob
         /\ n \notin Range(g.observers)
         /\ \A k \in 1..Len(g.defined) : g.defined[k][1] # n
  /\ g.op.name = "observe" /\ g.pre.heap[g.op.n].ob # NoOb =>
       /\ g.ob = g.pre.heap[g.op.n].ob
       /\ depUid = g.pre.depUid
       /\ DOMAIN subs = Deps \cup (BoxedOb + 1..depUid - 1)
       /\ heap = g.pre.heap
       /\ g.defined = <<>> /\ g.observers = <<>>

\* observe() of an object that got its Observer from an earlier call, while
\* shouldObserve is false
C22_Witness ==
  /\ g.op.name = "observe"
  /\ g.op.n = Loose
  /\ ~shouldObserve
  /\ g.pre.heap[Loose].ob # NoOb
  /\ g.ob = heap[Loose].ob
  /\ heap[Loose].props[1].dep # NoOb

\* observe(value) would make an Observer for the object n
Observable(n) ==
  shouldObserve /\ heap[n].kind \in {"array", "plain"} /\ heap[n].extensible
    /\ ~heap[n].isVue

\* C30: an assignment of another object to box leaves that object with an
\* Observer if it had one or observe() makes one (shouldObserve is true), and
\* box's childOb is that Observer; every active Watcher of box the assignment
\* ran has, as its run returns, box's Dep and the Dep of that Observer as its
\* deps and is in their subs, and is in the subs of no other Dep, the Dep of
\* the Observer of the object box held before included.
C30_NewContainerTracked ==
  g.op.name = "write" /\ g.op.p = "box" /\ g.op.v # g.pre.val =>
    LET new == g.op.v.n
        wasOb == g.pre.heap[new].ob
    IN  /\ data.box = g.op.v
        /\ wasOb # NoOb => heap[new].ob = wasOb
        /\ wasOb = NoOb /\ Observable(new) => heap[new].ob = g.pre.depUid
        /\ wasOb = NoOb /\ ~Observable(new) => heap[new].ob = NoOb
        /\ childOb.box = heap[new].ob
        /\ \A w \in Range(g.runs) :
             g.pre.active[w] /\ watchers[w].getter = "getbox" =>
               /\ watchers[w].depIds = {DepOf.box} \cup ({childOb.box} \ {NoOb})
               /\ \A d \in DOMAIN subs :
                    w \in Range(subs[d]) <=> d \in watchers[w].depIds

\* box is assigned an object that has no Observer while a sync watcher of box
\* is subscribed to the Dep of the Observer of the object box holds
C30_Witness ==
  /\ g.op.name = "write" /\ g.op.p = "box"
  /\ g.pre.heap[g.op.v.n].ob = NoOb
  /\ heap[g.op.v.n].ob # NoOb
  /\ g.pre.childOb.box # NoOb
  /\ g.runs # <<>>
  /\ \E w \in Range(g.runs) :
       /\ g.pre.childOb.box \in g.pre.seen[w]
       /\ childOb.box \in watchers[w].depIds
       /\ w \notin Range(subs[g.pre.childOb.box])

\* The target of Vue.set or Vue.delete as the call found it, and as it is.
Was == g.pre.heap[g.op.n]
Is == heap[g.op.n]
\* the own key of object o that is named key
PropOf(o, key) == o.props[KeyAt(o.props, key)]
\* the target had an Observer and was neither vm._data nor vm
WasTracked == Was.ob # NoOb /\ Was.vmCount = 0 /\ ~Was.isVue
\* the Watchers whose last evaluation read the container with Observer Dep d
ReadersOf(d) == {w \in 1..Len(watchers) : g.pre.active[w] /\ d \in g.pre.seen[w]}

\* C23: Vue.set on an object that has an Observer and is neither vm._data
\* nor vm.  For a key the object has not: the key gets an accessor with a new
\* Dep and holds the value, and the Observer's Dep notifies once and nothing
\* else does: update() is called once on every Watcher whose evaluation read
\* the object.  For a key it has: the key keeps its accessor and holds the
\* value, no Dep is made, and the Observer's Dep does not notify (the key's
\* Dep does if the value changed).
C23_SetNotifies ==
  g.op.name = "set" /\ WasTracked /\ Was.kind = "plain" =>
    /\ hasOwn(Is, g.op.key)
    /\ PropOf(Is, g.op.key).val = g.op.v
    /\ IF ~hasOwn(Was, g.op.key)
         THEN /\ PropOf(Is, g.op.key).dep = g.pre.depUid
              /\ depUid = g.pre.depUid + 1
              /\ g.defined = <<<<g.op.n, g.op.key>>>>
              /\ g.notified = <<Was.ob>>
              /\ Range(g.passes[1].called) = ReadersOf(Was.ob)
              /\ \A w \in ReadersOf(Was.ob) : Count(g.updates, w) = 1
         ELSE /\ PropOf(Is, g.op.key).dep = PropOf(Was, g.op.key).dep
              /\ PropOf(Is, g.op.key).dep # NoOb
              /\ depUid = g.pre.depUid
              /\ g.defined = <<>>
              /\ g.notified = IF PropOf(Was, g.op.key).val = g.op.v THEN <<>>
                               ELSE <<PropOf(Was, g.op.key).dep>>

\* Vue.set(vm.box, 'k', 2) adds k to the object in box while a watcher of
\* box.k and a sync watcher of box are subscribed to its Observer's Dep
C23_Witness ==
  /\ g.op.name = "set" /\ g.op.n = Boxed
  /\ ~hasOwn(Was, g.op.key)
  /\ PropOf(Is, g.op.key).val = Num(2)
  /\ Cardinality(ReadersOf(BoxedOb)) = 2
  /\ Cardinality(Range(g.updates)) = 2

\* C24 as stated: Vue.set on vm._data or on vm with a key that is not in it
\* reports a warning, throws nothing and notifies no Dep, and the target has
\* the key with the value afterwards.
C24_RootSetAssigns ==
  g.op.name = "set" /\ g.op.n \in {Root, Vm} /\ g.op.key.name \notin Props =>
    /\ g.warnings # <<>>
    /\ ~g.thrown
    /\ g.notified = <<>>
    /\ hasOwn(Is, g.op.key)
    /\ PropOf(Is, g.op.key).val = g.op.v

\* C29: Vue.delete.  On vm._data and on vm nothing is deleted and no Dep
\* notifies; a key the target has not leaves everything as it is; an own key
\* of an object that has an Observer is deleted and the Observer's Dep
\* notifies once and nothing else does; an own key of an object without
\* Observer is deleted and no Dep notifies.
C29_DelNotifies ==
  g.op.name = "del" /\ Was.kind = "plain" =>
    IF g.op.n \in {Root, Vm} \/ ~hasOwn(Was, g.op.key)
      THEN heap = g.pre.heap /\ g.notified = <<>> /\ g.updates = <<>>
      ELSE /\ Is.props = Without(Was.props, g.op.key)
           /\ ~hasOwn(Is, g.op.key)
           /\ g.notified = IF Was.ob # NoOb THEN <<Was.ob>> ELSE <<>>
           /\ Was.ob # NoOb =>
                /\ Range(g.passes[1].called) = ReadersOf(Was.ob)
                /\ \A w \in ReadersOf(Was.ob) : Count(g.updates, w) = 1

\* Vue.delete(vm.box, 'k') deletes the key a watcher of box.k has read
C29_Witness ==
  /\ g.op.name = "del" /\ g.op.n = Boxed
  /\ hasOwn(Was, g.op.key)
  /\ ~hasOwn(Is, g.op.key)
  /\ \E w \in ReadersOf(BoxedOb) :
       /\ PropOf(Was, g.op.key).dep \in g.pre.seen[w]
       /\ w \in Range(g.updates)

\* C28: Vue.set and Vue.delete on an array with index i (from 0).  After
\* set, item i is the value; when i was not below the length, the length is
\* i + 1, the items there were are as they were and those between are
\* undefined; when it was, the length and the other items are as they were.
\* After delete of an index below the length the items behind it have moved
\* one down and the length is one less.  On an array with an Observer, its
\* Dep notifies once in each of these calls, and nothing else does.
C28_ListSet ==
  /\ g.op.name = "set" /\ Was.kind = "array" =>
       LET i == g.op.key.i
           len == Len(Was.items)
       IN  /\ Len(Is.items) = IF i >= len THEN i + 1 ELSE len
           /\ Is.items[i + 1] = g.op.v
           /\ \A j \in 1..Len(Is.items) :
                j # i + 1 => Is.items[j] = IF j <= len THEN Was.items[j] ELSE Undefined
           /\ g.notified = IF Was.ob # NoOb THEN <<Was.ob>> ELSE <<>>
  /\ g.op.name = "del" /\ Was.kind = "array" =>
       LET i == g.op.key.i
           len == Len(Was.items)
       IN  /\ Len(Is.items) = IF i < len THEN len - 1 ELSE len
           /\ \A j \in 1..Len(Is.items) :
                Is.items[j] = IF j <= i THEN Was.items[j] ELSE Was.items[j + 1]
           /\ g.notified = IF Was.ob # NoOb THEN <<Was.ob>> ELSE <<>>

\* Vue.set(vm.box, 2, v) on the array in box, whose length is 1, while a
\* watcher of box is subscribed to the Dep of its Observer
C28_Witness ==
  /\ g.op.name = "set" /\ g.op.n = List
  /\ Was.ob # NoOb
  /\ Len(Was.items) = 1
  /\ g.op.key.i = 2
  /\ Len(Is.items) = 3
  /\ Is.items[2] = Undefined
  /\ ReadersOf(Was.ob) # {}
  /\ Range(g.updates) = ReadersOf(Was.ob)

\* C31: a call of run() on a Watcher that was torn down evaluates nothing,
\* calls nothing back and leaves its value; no callback of a Watcher that was
\* torn down before an entry point began is called in it, and a callback
\* that tears its Watcher down is called at most once in an entry point.
C31_NoRunAfterTeardown ==
  /\ \A k \in 1..Len(g.ran) :
       ~g.ran[k].active =>
         /\ g.ran[k].evals = <<>>
         /\ g.ran[k].cbs = <<>>
         /\ g.ran[k].after = g.ran[k].old
  /\ \A k \in 1..Len(g.cbs) :
       LET w == g.cbs[k].w
       IN  /\ w \in DOMAIN g.pre.active => g.pre.active[w]
           /\ watchers[w].cb = "unwatch" =>
                 \A j \in 1..Len(g.cbs) : g.cbs[j].w = w => j = k

\* the flush reaches a watcher of a that was torn down while it was waiting
\* in the queue, with a as it was not when it was last evaluated
C31_Witness ==
  /\ g.op.name = "flush"
  /\ \E k \in 1..Len(g.ran) :
       LET w == g.ran[k].w
       IN  /\ ~g.ran[k].active
           /\ w \in Range(g.pre.queue)
           /\ watchers[w].value # data["a"]
           /\ g.cbs = <<>>

\* the evaluations of Watcher w in the history h, and those that returned
EvalsOf(h, w) == {i \in 1..Len(h.evals) : h.evals[i].w = w}
ReturnedOf(h, w) == {i \in EvalsOf(h, w) : ~h.evals[i].threw}
\* 1 for a Watcher that is dirty
Stale(w) == IF watchers[w].dirty THEN 1 ELSE 0

\* what holds of a lazy Watcher whether its evaluation function throws or
\* not: the constructor evaluates nothing and leaves value undefined and
\* dirty set; a read of c evaluates once if c is dirty and not at all if it
\* is not, and then returns the value it had; dirty is set by update() only,
\* and value changes only in an evaluation that returned
LazySteps ==
  /\ g'.op.name = "new" /\ watchers'[g'.op.w].lazy =>
       /\ watchers'[g'.op.w].value = Undefined
       /\ watchers'[g'.op.w].dirty
       /\ EvalsOf(g', g'.op.w) = {}
  /\ computedWatchers # NoWatcher =>
       LET c == computedWatchers
       IN  /\ g'.op.name = "read" =>
                /\ Cardinality(EvalsOf(g', c)) = Stale(c)
                /\ ~watchers[c].dirty =>
                      ~g'.thrown /\ g'.ret = watchers[c].value
           /\ ~watchers[c].dirty /\ watchers'[c].dirty => c \in Range(g'.updates)
           /\ watchers'[c].value # watchers[c].value => ReturnedOf(g', c) # {}

\* C32 as stated: a lazy Watcher is not evaluated when it is constructed;
\* a read of c evaluates only if c is dirty, leaves it not dirty and returns
\* its value; and in every entry point the evaluations of c are at most one
\* for each update() of c, and one more if c was dirty.
C32_CachedRead ==
  [][/\ LazySteps
     /\ computedWatchers # NoWatcher =>
          LET c == computedWatchers
          IN  /\ g'.op.name = "read" =>
                   ~watchers'[c].dirty /\ g'.ret = watchers'[c].value
              /\ Cardinality(EvalsOf(g', c)) <= Count(g'.updates, c) + Stale(c)]_vars

\* C32, amended: the same with the evaluations that returned; a read of c
\* whose evaluation throws leaves c dirty and its value as it was, and the
\* exception leaves the read.
C32_CachedReadUnlessThrown ==
  [][/\ LazySteps
     /\ computedWatchers # NoWatcher =>
          LET c == computedWatchers
          IN  /\ g'.op.name = "read" =>
                   IF g'.thrown
                     THEN /\ watchers[c].dirty /\ watchers'[c].dirty
                          /\ watchers'[c].value = watchers[c].value
                     ELSE ~watchers'[c].dirty /\ g'.ret = watchers'[c].value
              /\ Cardinality(ReturnedOf(g', c)) <= Count(g'.updates, c) + Stale(c)]_vars

\* a read of c that finds it evaluated: nothing is evaluated, and what it
\* returns is the value an earlier read computed
C32_Witness ==
  /\ g.op.name = "read"
  /\ g.evals = <<>>
  /\ ~watchers[computedWatchers].dirty
  /\ g.ret = Num(1)
  /\ g.ret = watchers[computedWatchers].value

\* C33 as stated: with c () { return this.a }, a Watcher of this.a + this.c
\* constructed after c's, sync or batched: every run() of it that an
\* assignment to a brought about (in the assignment, or in the flush after
\* it) leaves it with a + a for the value of a as it is now.
C33_NoStaleComputedRead ==
  g.op.name \in {"write", "flush"} /\ computedWatchers # NoWatcher =>
    \A k \in 1..Len(g.ran) :
      LET o == g.ran[k].w
      IN  /\ watchers[o].getter = "both"
          /\ computedWatchers < o
          /\ g.ran[k].active
          => g.ran[k].after = Plus(data["a"], data["a"])

\* C34: between entry points, and whenever a get() returns that was not
\* called from inside another, every active Watcher is in the subs of
\* exactly the Deps in its deps, and its depIds are the ids of its deps.
C34_SubscriptionSymmetry ==
  /\ Symmetric(watchers, subs)
  /\ \A k \in 1..Len(g.evals) : g.evals[k].outermost => g.evals[k].symmetric

\* a Watcher was evaluated from inside its own evaluation (its expression
\* assigns what it reads) after a notification, it is active, and another
\* Watcher was torn down before
C34_Witness ==
  /\ g.op.name = "write"
  /\ g.notified # <<>>
  /\ \E k \in 1..Len(g.evals) :
       /\ g.evals[k].w \in Range(g.evals[k].stackBefore)
       /\ watchers[g.evals[k].w].active
  /\ \E w \in 1..Len(watchers) : ~watchers[w].active

\* C35: a callHook whose handler reads a property, and a getData whose
\* factory reads one, run the handler and the factory with no Dep.target,
\* call depend() for no Watcher and leave every Dep's subs and every
\* Watcher's deps and newDeps as they were; when they return, Dep.target and
\* targetStack are as they were before the call, and nothing is thrown, also
\* when the handler or the factory threw.  So flag, which only handlers and
\* factories read, has no subscriber, and an evaluation that called them
\* between reading a and reading b has read exactly a and b.
C35_HooksUntracked ==
  /\ \A i \in 1..Len(g.guards) :
       LET r == g.guards[i]
       IN  r.handler \in {"reads", "throws", "factory", "factoryBad"} =>
             /\ r.targetIn = NoTarget
             /\ r.reads = 0
             /\ r.subsSame
             /\ r.watchersSame
             /\ r.targetAfter = r.targetBefore
             /\ r.stackAfter = r.stackBefore
             /\ ~r.threw
  /\ subs[DepOf["flag"]] = <<>>
  /\ \A i \in 1..Len(g.evals) :
       watchers[g.evals[i].w].getter \in {"dismiss", "spawn", "spawnBad"} =>
         g.evals[i].seen = {DepOf["a"], DepOf["b"]}

\* a flush in which one watcher's expression destroyed a scope whose
\* beforeDestroy handler read flag and threw, and another's made a scope
\* whose data factory read flag and threw
C35_Witness ==
  /\ g.op.name = "flush"
  /\ \E i \in 1..Len(g.guards) :
       /\ g.guards[i].fn = "callHook"
       /\ g.guards[i].handler = "throws"
       /\ g.guards[i].targetBefore # NoTarget
  /\ \E i \in 1..Len(g.guards) :
       /\ g.guards[i].fn = "getData"
       /\ g.guards[i].handler = "factoryBad"
       /\ g.guards[i].targetBefore # NoTarget
  /\ Len(g.errors) = 2

\* The positions of hook in the hooks called on the k-th scope.
HooksOf(k, hook) == {i \in 1..Len(scopes[k].gHooks) : scopes[k].gHooks[i] = hook}

\* C36: whatever $destroy() calls are made on a scope, also from inside its
\* own beforeDestroy handler, beforeDestroy and destroyed are each called at
\* most once, destroyed only after beforeDestroy, and $destroy decrements
\* vmCount of the scope's root data at most once.
C36_DestroyOnce ==
  \A k \in 1..Len(scopes) :
    /\ Cardinality(HooksOf(k, "beforeDestroy")) <= 1
    /\ Cardinality(HooksOf(k, "destroyed")) <= 1
    /\ \A i \in HooksOf(k, "destroyed") :
         \E j \in HooksOf(k, "beforeDestroy") : j < i
    /\ scopes[k].gDecrements <= 1

\* The scopes, initialised and not destroyed, whose root data is object n;
\* the scope Self, whose root data is Root, is one.
LiveScopes(n) ==
  {k \in 1..Len(scopes) : scopes[k].data = n /\ ~scopes[k].isDestroyed}
  \cup (IF n = Root THEN {Self} ELSE {})

\* C37: vmCount of an Observer is the number of initialised scopes, not yet
\* destroyed, whose root data its object is, and is never negative; set()
\* of a new key refuses the object as root data exactly if the count is
\* positive.
C37_CountsLiveScopes ==
  /\ \A n \in DOMAIN heap :
       heap[n].ob # NoOb =>
         /\ heap[n].vmCount = Cardinality(LiveScopes(n))
         /\ heap[n].vmCount >= 0
  /\ (g.op.name = "set" /\ Was.ob # NoOb /\ ~Was.isVue /\ ~hasOwn(Was, g.op.key))
       => ((g.warnings # <<>>) <=> Was.vmCount > 0)

\* before() call i of this entry point called the beforeUpdate hook.
Fired(i) ==
  LET r == g.befores[i]
  IN  /\ Len(g.hooks) > r.hooks
      /\ g.hooks[r.hooks + 1].vm = r.vm
      /\ g.hooks[r.hooks + 1].hook = "beforeUpdate"

\* C38: before() of a scope's render Watcher calls the beforeUpdate hook
\* only if the scope is mounted and not destroyed (and then it does), and
\* nothing else calls the hook.
C38_BeforeUpdateWhenMounted ==
  /\ \A i \in 1..Len(g.befores) :
       Fired(i) <=> (g.befores[i].isMounted /\ ~g.befores[i].isDestroyed)
  /\ \A j \in 1..Len(g.hooks) :
       (g.hooks[j].vm < 0 /\ g.hooks[j].hook = "beforeUpdate") =>
         \E i \in 1..Len(g.befores) :
           g.befores[i].hooks = j - 1 /\ g.befores[i].vm = g.hooks[j].vm

\* A flush calls before() of the pending render Watchers of two scopes, one
\* mounted and one destroyed or not yet mounted: the hook is called for the
\* first only.
C38_Witness ==
  /\ g.op.name = "flush"
  /\ \E i, j \in 1..Len(g.befores) :
       /\ Fired(i)
       /\ ~Fired(j)
       /\ g.befores[j].isDestroyed \/ ~g.befores[j].isMounted

\* The closure that the id-th call of $once made is in vm._events.
Registered(id) ==
  \E event \in Events :
    \E i \in 1..Len(events[event].cbs) : events[event].cbs[i].id = id

\* C39: the function given to a call of $once is called by the handler of
\* that call at most once, whatever $emit calls are made, also by other
\* handlers of the event while an $emit of it is in progress; once it has
\* been called the handler is not in vm._events.
C39_OnceAtMostOnce ==
  \A id \in 1..Len(gOnce) :
    /\ gOnce[id].calls <= 1
    /\ gOnce[id].calls >= 1 => ~Registered(id)

\* C40: the install function of a plugin (or the plugin, if it is a
\* function) is called at most once; a call of Vue.use() with a plugin that
\* Vue.use() was called with before calls nothing, leaves
\* Vue._installedPlugins as it was and returns Vue.
C40_UseIdempotent ==
  /\ \A plugin \in Plugins : gInstalls[plugin] <= 1
  /\ (g.op.name = "use" /\ g.op.p \in g.pre.used) =>
       /\ gInstalls = g.pre.installs
       /\ installedPlugins = g.pre.installedPlugins
       /\ g.ret = Vue

====
